---- MODULE Spec2Model ----
(***************************************************************************)
(* Model of doc/docca-asciidoc/docca_asciidoc.py: the documentation-model  *)
(* compiler (collect_data: build, wire, resolve) and the rendering driver  *)
(* (main), together with the pure helpers they use.                        *)
(*                                                                         *)
(* Text is a sequence of one-character strings.  Objects live in a heap    *)
(* (a sequence of records); a handle is a position in the heap and 0 is    *)
(* Python's None.  Dictionaries are insertion-ordered sequences of         *)
(* entries, as Python's dict is.                                           *)
(***************************************************************************)
EXTENDS Integers, Sequences, FiniteSets, TLC

VARIABLES
    pc,        \* position of main/collect_data: load, build, wire, resolve, render, done, aborted
    nrefs,     \* number of compound refids collect_compound_refs yielded
    pos,       \* loop position in the current pass (refs or index entries)
    cur,       \* the compounddef element just loaded, not built yet
    corpus,    \* which family of input documents this run reads
    objs,      \* the heap of objects constructed so far
    index,     \* the symbol table `result`: sequence of [id, ent]
    loaded,    \* how many compound documents have been loaded (parsed)
    built,     \* how many compound documents have been handed to a factory
    wired,     \* handles whose update_scopes has returned
    resolved,  \* handles whose resolve_references has returned
    failed,    \* the step that raised, "" while none has
    refLog,    \* calls of make_entity_reference that returned: [refid, allow, text, result]
    lastWire,  \* handle of the entity whose update_scopes returned last, with its records
    rendered   \* sequence of [template, entity, file] documents rendered by main

vars == <<pc, nrefs, pos, cur, corpus, objs, index, loaded, built, wired,
          resolved, failed, refLog, lastWire, rendered>>

----------------------------------------------------------------------------
(* Bounds of the model *)

\* largest number of compound refids in the index document
MaxCompounds == 3

\* largest number of functions appended to one OverloadSet
MaxFuncs == 4

\* largest number of memberdefs in one compound of the "members" documents
MaxMembers == 2

\* largest length of the enumerated compound names of the "names" documents
MaxName == 4

\* largest length of the enumerated function names of the "operators"
\* documents
MaxSeg == 3

\* largest number of inline elements in the paragraph of the "paragraphs"
\* documents
MaxParts == 2

\* largest number of items in the list of the "lists" documents
MaxItems == 2

----------------------------------------------------------------------------
(* Text helpers *)

None == 0

\* F applied to the value of v, v being evaluated once
With(v, F(_)) ==
    CHOOSE r \in {F(x) : x \in {v}} : TRUE

Whitespace == {" ", "\t", "\n", "\r", "\f"}

\* remove_endlines: str.translate deleting \r and \n
remove_endlines(s) ==
    SelectSeq(s, LAMBDA c : c \notin {"\r", "\n"})

RECURSIVE lstrip(_)
lstrip(s) ==
    IF s # <<>> /\ Head(s) \in Whitespace THEN lstrip(Tail(s)) ELSE s

RECURSIVE rstrip(_)
rstrip(s) ==
    IF s # <<>> /\ s[Len(s)] \in Whitespace
    THEN rstrip(SubSeq(s, 1, Len(s) - 1)) ELSE s

\* list.insert(n, x) with a 0-based n
InsertAt(s, n, x) ==
    SubSeq(s, 1, n) \o <<x>> \o SubSeq(s, n + 1, Len(s))

\* list.index(x) as a 0-based position, -1 when x is not in the list
IndexOf(s, x) ==
    IF \E i \in 1..Len(s) : s[i] = x
    THEN (CHOOSE i \in 1..Len(s) : s[i] = x /\ \A j \in 1..(i - 1) : s[j] # x) - 1
    ELSE -1

Reverse(s) ==
    [i \in 1..Len(s) |-> s[Len(s) + 1 - i]]

----------------------------------------------------------------------------
(* Path segments: Entity._sanitize_path_segment and Entity.asciidoc_file *)

\* s.replace(old, new): the occurrences of old found left to right, not
\* overlapping
RECURSIVE Replace(_, _, _)
Replace(s, old, new) ==
    IF Len(s) < Len(old) THEN s
    ELSE IF SubSeq(s, 1, Len(old)) = old
    THEN new \o Replace(SubSeq(s, Len(old) + 1, Len(s)), old, new)
    ELSE <<Head(s)>> \o Replace(Tail(s), old, new)

\* the table with the one-character tokens first
SanitizeTableShortFirst ==
    << <<<<"[">>, <<"-", "l", "b">>>>,
       <<<<"]">>, <<"-", "r", "b">>>>,
       <<<<"(">>, <<"-", "l", "p">>>>,
       <<<<")">>, <<"-", "r", "p">>>>,
       <<<<"=">>, <<"-", "e", "q">>>>,
       <<<<"!">>, <<"-", "n", "o", "t">>>>,
       <<<<"+">>, <<"-", "p", "l", "u", "s">>>>,
       <<<<"&">>, <<"-", "a", "n", "d">>>>,
       <<<<"|">>, <<"-", "o", "r">>>>,
       <<<<"^">>, <<"-", "x", "o", "r">>>>,
       <<<<"*">>, <<"-", "s", "t", "a", "r">>>>,
       <<<<"/">>, <<"-", "s", "l", "a", "s", "h">>>>,
       <<<<"%">>, <<"-", "m", "o", "d">>>>,
       <<<<"<">>, <<"-", "l", "t">>>>,
       <<<<">">>, <<"-", "g", "t">>>>,
       <<<<"~">>, <<"d", "t", "o", "r", "-">>>>,
       <<<<",">>, <<"-", "c", "o", "m", "m", "a">>>>,
       <<<<":">>, <<"-">>>>,
       <<<<" ">>, <<"-">>>>,
       <<<<"<", "=", ">">>, <<"-", "s", "p", "s", "h", "p">>>>,
       <<<<"-", ">">>, <<"-", "a", "r", "r", "o", "w">>>>,
       <<<<"o", "p", "e", "r", "a", "t", "o", "r", ">">>, <<"o", "p", "e", "r", "a", "t", "o", "r", "-", "g", "t">>>>,
       <<<<"o", "p", "e", "r", "a", "t", "o", "r", "~">>, <<"o", "p", "e", "r", "a", "t", "o", "r", "-", "b", "n", "o", "t">>>> >>

\* the table without the entry for "/"
SanitizeTableNoSlash ==
    << <<<<"[">>, <<"-", "l", "b">>>>,
       <<<<"]">>, <<"-", "r", "b">>>>,
       <<<<"(">>, <<"-", "l", "p">>>>,
       <<<<")">>, <<"-", "r", "p">>>>,
       <<<<"<", "=", ">">>, <<"-", "s", "p", "s", "h", "p">>>>,
       <<<<"-", ">">>, <<"-", "a", "r", "r", "o", "w">>>>,
       <<<<"o", "p", "e", "r", "a", "t", "o", "r", ">">>, <<"o", "p", "e", "r", "a", "t", "o", "r", "-", "g", "t">>>>,
       <<<<"o", "p", "e", "r", "a", "t", "o", "r", "~">>, <<"o", "p", "e", "r", "a", "t", "o", "r", "-", "b", "n", "o", "t">>>>,
       <<<<"=">>, <<"-", "e", "q">>>>,
       <<<<"!">>, <<"-", "n", "o", "t">>>>,
       <<<<"+">>, <<"-", "p", "l", "u", "s">>>>,
       <<<<"&">>, <<"-", "a", "n", "d">>>>,
       <<<<"|">>, <<"-", "o", "r">>>>,
       <<<<"^">>, <<"-", "x", "o", "r">>>>,
       <<<<"*">>, <<"-", "s", "t", "a", "r">>>>,
       <<<<"%">>, <<"-", "m", "o", "d">>>>,
       <<<<"<">>, <<"-", "l", "t">>>>,
       <<<<">">>, <<"-", "g", "t">>>>,
       <<<<"~">>, <<"d", "t", "o", "r", "-">>>>,
       <<<<",">>, <<"-", "c", "o", "m", "m", "a">>>>,
       <<<<":">>, <<"-">>>>,
       <<<<" ">>, <<"-">>>> >>

\* the replacements of _sanitize_path_segment, in the order they are chained
SanitizeTable ==
    << <<<<"[">>, <<"-", "l", "b">>>>,
       <<<<"]">>, <<"-", "r", "b">>>>,
       <<<<"(">>, <<"-", "l", "p">>>>,
       <<<<")">>, <<"-", "r", "p">>>>,
       <<<<"<", "=", ">">>, <<"-", "s", "p", "s", "h", "p">>>>,
       <<<<"-", ">">>, <<"-", "a", "r", "r", "o", "w">>>>,
       <<<<"o", "p", "e", "r", "a", "t", "o", "r", ">">>, <<"o", "p", "e", "r", "a", "t", "o", "r", "-", "g", "t">>>>,
       <<<<"o", "p", "e", "r", "a", "t", "o", "r", "~">>, <<"o", "p", "e", "r", "a", "t", "o", "r", "-", "b", "n", "o", "t">>>>,
       <<<<"=">>, <<"-", "e", "q">>>>,
       <<<<"!">>, <<"-", "n", "o", "t">>>>,
       <<<<"+">>, <<"-", "p", "l", "u", "s">>>>,
       <<<<"&">>, <<"-", "a", "n", "d">>>>,
       <<<<"|">>, <<"-", "o", "r">>>>,
       <<<<"^">>, <<"-", "x", "o", "r">>>>,
       <<<<"*">>, <<"-", "s", "t", "a", "r">>>>,
       <<<<"/">>, <<"-", "s", "l", "a", "s", "h">>>>,
       <<<<"%">>, <<"-", "m", "o", "d">>>>,
       <<<<"<">>, <<"-", "l", "t">>>>,
       <<<<">">>, <<"-", "g", "t">>>>,
       <<<<"~">>, <<"d", "t", "o", "r", "-">>>>,
       <<<<",">>, <<"-", "c", "o", "m", "m", "a">>>>,
       <<<<":">>, <<"-">>>>,
       <<<<" ">>, <<"-">>>> >>

RECURSIVE ApplyTable(_, _, _)
ApplyTable(s, table, i) ==
    IF i > Len(table) THEN s
    ELSE With(Replace(s, table[i][1], table[i][2]),
              LAMBDA t : ApplyTable(t, table, i + 1))

_sanitize_path_segment(s) ==
    ApplyTable(s, SanitizeTable, 1)

----------------------------------------------------------------------------
(* Scope name normalisation, Scope.__init__ *)

\* the loop with `if nesting:` never taken: angle brackets are copied but
\* not counted
RECURSIVE NormStepFlat(_, _, _, _, _)
NormStepFlat(raw, i, nesting, name, colon) ==
    IF i > Len(raw) THEN [colon |-> colon, name |-> name]
    ELSE IF colon /\ raw[i] = ":" THEN NormStepFlat(raw, i + 1, 0, <<>>, FALSE)
    ELSE IF raw[i] = ":"
    THEN NormStepFlat(raw, i + 1, 0,
                      IF colon THEN Append(name, ":") ELSE name, TRUE)
    ELSE NormStepFlat(raw, i + 1, 0,
                      Append(IF colon THEN Append(name, ":") ELSE name, raw[i]),
                      FALSE)

RECURSIVE NormStep(_, _, _, _, _)
NormStep(raw, i, nesting, name, colon) ==
    IF i > Len(raw) THEN [colon |-> colon, name |-> name]
    ELSE LET c == raw[i] IN
         IF colon /\ c = ":" THEN NormStep(raw, i + 1, nesting, <<>>, FALSE)
         ELSE LET name1 == IF colon THEN Append(name, ":") ELSE name IN
              IF nesting # 0
              THEN NormStep(raw, i + 1,
                            IF c = "<" THEN nesting + 1
                            ELSE IF c = ">" THEN nesting - 1 ELSE nesting,
                            Append(name1, c), FALSE)
              ELSE IF c = ":"
                   THEN NormStep(raw, i + 1, nesting, name1, TRUE)
                   ELSE NormStep(raw, i + 1,
                                 IF c = "<" THEN nesting + 1 ELSE nesting,
                                 Append(name1, c), FALSE)

\* the name left as Entity.__init__ read it
NormalizeScopeNameSkipped(raw) ==
    [ok |-> TRUE, name |-> raw]

\* ok = FALSE: the trailing `name.append(':')` raises (str has no append)
NormalizeScopeName(raw) ==
    LET r == NormStep(raw, 1, 0, <<>>, FALSE)
    IN  [ok |-> ~r.colon, name |-> r.name]

----------------------------------------------------------------------------
(* XML elements.  An element is a record; an absent element (find() gave   *)
(* None) has present = FALSE.  refid is the one attribute the content      *)
(* functions read.                                                         *)

Elem(tag, refid, text, children, tail) ==
    [present |-> TRUE, tag |-> tag, refid |-> refid, text |-> text,
     children |-> children, tail |-> tail]

\* the empty id: element.get('id', '') or a missing refid attribute
NoId == <<>>

NoElem ==
    [present |-> FALSE, tag |-> "", refid |-> NoId, text |-> <<>>,
     children |-> <<>>, tail |-> <<>>]

\* ''.join(element.itertext())
RECURSIVE IterText(_)
RECURSIVE IterTextKids(_, _)
IterTextKids(kids, i) ==
    IF i > Len(kids) THEN <<>>
    ELSE IterText(kids[i]) \o kids[i].tail \o IterTextKids(kids, i + 1)

IterText(e) ==
    IF ~e.present THEN <<>> ELSE e.text \o IterTextKids(e.children, 1)

----------------------------------------------------------------------------
(* The symbol table: dict from id to entity, in insertion order *)

IndexHas(idx, id) ==
    \E i \in 1..Len(idx) : idx[i].id = id

\* stands for an Entity passed where the index is expected: an object
\* that is no dict and has no get
EntityAsIndex ==
    <<[id |-> NoId, ent |-> None]>>

\* dict.get(id): the entity, or None
IndexGet(idx, id) ==
    IF IndexHas(idx, id)
    THEN idx[CHOOSE i \in 1..Len(idx) : idx[i].id = id].ent
    ELSE None

\* index[id] = ent: a new key is appended, an existing key keeps its place
\* and gets the new value
IndexPut(idx, id, ent) ==
    IF IndexHas(idx, id)
    THEN [i \in 1..Len(idx) |->
            IF idx[i].id = id THEN [id |-> id, ent |-> ent] ELSE idx[i]]
    ELSE Append(idx, [id |-> id, ent |-> ent])

----------------------------------------------------------------------------
(* Content model: phrases and blocks *)

StrPart(t) ==
    [kind |-> "str", entity |-> None, text |-> t, parts |-> <<>>]

MkPhrase(kind, entity, parts) ==
    [kind |-> kind, entity |-> entity, text |-> <<>>, parts |-> parts]

\* the value a function returns when it falls off its end
NonePart ==
    [kind |-> "None", entity |-> None, text |-> <<>>, parts |-> <<>>]

Paragraph(parts) ==
    [kind |-> "Paragraph", parts |-> parts, items |-> <<>>]

ListBlock(items) ==
    [kind |-> "List", parts |-> <<>>, items |-> items]

\* a result of a parsing function: ok = FALSE when it raised; log = the
\* make_entity_reference calls that returned while it ran
Ret(ok, val, log) ==
    [ok |-> ok, val |-> val, log |-> log]

Raised ==
    Ret(FALSE, <<>>, {})

\* the result r of a Phrase subclass constructor applied to parsed content
Wrap(kind, entity, content) ==
    IF content.ok
    THEN Ret(TRUE, MkPhrase(kind, entity, content.val), content.log)
    ELSE Raised

\* result.append(x) for a parsed x
AppendRet(acc, r) ==
    Ret(r.ok, Append(acc.val, r.val), acc.log \cup r.log)

\* if child.tail: result.append(remove_endlines(child.tail))
AppendTail(acc, tail) ==
    IF acc.ok /\ tail # <<>>
    THEN [acc EXCEPT !.val = Append(@, StrPart(remove_endlines(tail)))]
    ELSE acc

\* the tags of make_phrase whose functions wrap phrase_content and nothing
\* more (the documents of this model hold no ulink, whose function also
\* reads and asserts a url)
PhraseTags ==
    [bold |-> "Strong", computeroutput |-> "Monospaced", verbatim |-> "Monospaced",
     emphasis |-> "Emphasised"]

RECURSIVE phrase_content(_, _, _)
RECURSIVE PhraseChildren(_, _, _, _, _)
RECURSIVE make_phrase(_, _, _)
RECURSIVE make_entity_reference(_, _, _, _)

\* the loop of phrase_content over the element's children
PhraseChildren(kids, i, idx, allow, acc) ==
    IF i > Len(kids) \/ ~acc.ok THEN acc
    ELSE With(AppendTail(AppendRet(acc, make_phrase(kids[i], idx, allow)),
                         kids[i].tail),
              LAMBDA a : PhraseChildren(kids, i + 1, idx, allow, a))

phrase_content(element, idx, allow) ==
    IF ~element.present THEN Ret(TRUE, <<>>, {})
    ELSE PhraseChildren(element.children, 1, idx, allow,
            Ret(TRUE,
                IF element.text # <<>>
                THEN <<StrPart(remove_endlines(element.text))>> ELSE <<>>,
                {}))

\* the call that returned v, added to the log of r
Logged(r, refid, allow, element) ==
    IF r.ok
    THEN [r EXCEPT !.log = @ \cup {[refid |-> refid, allow |-> allow,
                                    text |-> element.text, result |-> r.val]}]
    ELSE r

\* make_entity_reference taking the fallback whenever it is allowed, the
\* target looked up only when it is not
EntityReferenceUnlinked(element, idx, refid, allow) ==
    IF refid = NoId THEN Raised
    ELSE IF allow
    THEN Logged(Wrap("Phrase", None, phrase_content(element, idx, TRUE)),
                refid, allow, element)
    ELSE IF IndexGet(idx, refid) # None
    THEN Logged(Wrap("EntityRef", IndexGet(idx, refid),
                     phrase_content(element, idx, allow)),
                refid, allow, element)
    ELSE Logged(Ret(TRUE, NonePart, {}), refid, allow, element)

\* make_entity_reference without its last if: a missing target falls off
\* the end whatever allow_missing_refs is
EntityReferenceNoFallback(element, idx, refid, allow) ==
    IF refid = NoId THEN Raised
    ELSE IF IndexGet(idx, refid) # None
    THEN Logged(Wrap("EntityRef", IndexGet(idx, refid),
                     phrase_content(element, idx, allow)),
                refid, allow, element)
    ELSE Logged(Ret(TRUE, NonePart, {}), refid, allow, element)

\* make_entity_reference once refid = refid or element.get('refid');
\* index.get raises AttributeError when index is an Entity
EntityReference(element, idx, refid, allow) ==
    IF refid = NoId THEN Raised
    ELSE IF idx = EntityAsIndex THEN Raised
    ELSE IF IndexGet(idx, refid) # None
    THEN Logged(Wrap("EntityRef", IndexGet(idx, refid),
                     phrase_content(element, idx, allow)),
                refid, allow, element)
    ELSE IF allow
    THEN Logged(Wrap("Phrase", None, phrase_content(element, idx, TRUE)),
                refid, allow, element)
    ELSE Logged(Ret(TRUE, NonePart, {}), refid, allow, element)

\* refid0 = NoId stands for the default refid=None
make_entity_reference(element, idx, refid0, allow) ==
    EntityReference(element, idx,
                    IF refid0 # NoId THEN refid0 ELSE element.refid, allow)

make_phrase(element, idx, allow) ==
    IF element.tag \in DOMAIN PhraseTags
    THEN Wrap(PhraseTags[element.tag], None,
              phrase_content(element, idx, allow))
    ELSE IF element.tag = "linebreak"
    THEN Ret(TRUE, MkPhrase("Linebreak", None, <<>>), {})
    ELSE IF element.tag = "ref"
    THEN make_entity_reference(element, idx, NoId, allow)
    ELSE Raised

text_with_refs(element, idx) ==
    Wrap("Phrase", None, phrase_content(element, idx, TRUE))

Constexpr == <<"c", "o", "n", "s", "t", "e", "x", "p", "r">>

StartsWith(s, p) ==
    Len(s) >= Len(p) /\ SubSeq(s, 1, Len(p)) = p

\* resolve_type after result = text_with_refs(element, index)
StripConstexpr(r) ==
    IF r.ok /\ r.val.parts # <<>> /\ r.val.parts[1].kind = "str"
       /\ StartsWith(r.val.parts[1].text, Constexpr)
    THEN [r EXCEPT !.val.parts[1] =
            StrPart(lstrip(SubSeq(r.val.parts[1].text, Len(Constexpr) + 1,
                                  Len(r.val.parts[1].text))))]
    ELSE r

resolve_type(element, idx) ==
    With(text_with_refs(element, idx), LAMBDA r : StripConstexpr(r))

\* finish_paragraph, first if: the leading text run
StripFirst(p) ==
    IF p # <<>> /\ p[1].kind = "str"
    THEN IF lstrip(p[1].text) = <<>> THEN Tail(p)
         ELSE <<StrPart(lstrip(p[1].text))>> \o Tail(p)
    ELSE p

\* finish_paragraph, second if: the trailing text run
StripLast(p) ==
    IF p # <<>> /\ p[Len(p)].kind = "str"
    THEN IF rstrip(p[Len(p)].text) = <<>> THEN SubSeq(p, 1, Len(p) - 1)
         ELSE [p EXCEPT ![Len(p)] = StrPart(rstrip(p[Len(p)].text))]
    ELSE p

\* finish_paragraph without its loop
StripAfterBreaksSkipped(p) ==
    p

\* finish_paragraph, the loop: text runs after a Linebreak
StripAfterBreaks(p) ==
    [n \in 1..Len(p) |->
        IF n > 1 /\ p[n - 1].kind = "Linebreak" /\ p[n].kind = "str"
        THEN StrPart(lstrip(p[n].text)) ELSE p[n]]

\* finish_paragraph: the blocks it appends to result (none or one Paragraph)
FinishParagraph(cur_para) ==
    With(StripAfterBreaks(StripLast(StripFirst(cur_para))),
         LAMBDA p : IF p # <<>> THEN <<Paragraph(p)>> ELSE <<>>)

RECURSIVE make_blocks(_, _)
RECURSIVE BlockChildren(_, _, _, _)
RECURSIVE make_list(_, _)
RECURSIVE ListItems(_, _, _, _)

\* cur_para = finish_paragraph(cur_para) on acc = [ok, blocks, cur, log]
Flush(acc) ==
    [acc EXCEPT !.blocks = @ \o FinishParagraph(acc.cur), !.cur = <<>>]

\* result.append(func(child, index)) or result.extend(make_blocks(child, index))
AddBlocks(acc, r, extend) ==
    [ok |-> r.ok,
     blocks |-> IF extend THEN acc.blocks \o r.val ELSE Append(acc.blocks, r.val),
     cur |-> acc.cur, log |-> acc.log \cup r.log]

\* cur_para.append(make_phrase(child, index))
AddPhrase(acc, r) ==
    [ok |-> r.ok, blocks |-> acc.blocks, cur |-> Append(acc.cur, r.val),
     log |-> acc.log \cup r.log]

\* if child.tail: cur_para.append(remove_endlines(child.tail))
AddTail(acc, tail) ==
    IF acc.ok /\ tail # <<>>
    THEN [acc EXCEPT !.cur = Append(@, StrPart(remove_endlines(tail)))]
    ELSE acc

\* one round of the loop of make_blocks, before the tail
BlockChild(acc, child, idx) ==
    IF child.tag = "itemizedlist"
    THEN AddBlocks(Flush(acc), make_list(child, idx), FALSE)
    ELSE IF child.tag = "para"
    THEN AddBlocks(Flush(acc), make_blocks(child, idx), TRUE)
    ELSE AddPhrase(acc, make_phrase(child, idx, FALSE))

\* the loop of make_blocks over the element's children, and the last
\* finish_paragraph
BlockChildren(kids, i, idx, acc) ==
    IF ~acc.ok THEN acc
    ELSE IF i > Len(kids) THEN Flush(acc)
    ELSE With(AddTail(BlockChild(acc, kids[i], idx), kids[i].tail),
              LAMBDA a : BlockChildren(kids, i + 1, idx, a))

\* make_blocks returns result
BlocksOf(a) ==
    IF a.ok THEN Ret(TRUE, a.blocks, a.log) ELSE Raised

make_blocks(element, idx) ==
    IF ~element.present THEN Ret(TRUE, <<>>, {})
    ELSE With(BlockChildren(element.children, 1, idx,
                 [ok |-> TRUE, blocks |-> <<>>,
                  cur |-> IF element.text # <<>>
                          THEN <<StrPart(remove_endlines(element.text))>>
                          ELSE <<>>,
                  log |-> {}]),
              LAMBDA a : BlocksOf(a))

ListItems(kids, i, idx, acc) ==
    IF i > Len(kids) \/ ~acc.ok THEN acc
    ELSE IF kids[i].tag # "listitem" THEN Raised
    ELSE With(AppendRet(acc, make_blocks(kids[i], idx)),
              LAMBDA a : ListItems(kids, i + 1, idx, a))

\* List(element.get('type'), items)
ListOf(r) ==
    IF r.ok THEN Ret(TRUE, ListBlock(r.val), r.log) ELSE Raised

make_list(element, idx) ==
    With(ListItems(element.children, 1, idx, Ret(TRUE, <<>>, {})),
         LAMBDA r : ListOf(r))

----------------------------------------------------------------------------
(* Heap objects.  Every object has the same fields; a field a class does   *)
(* not have keeps its blank value.  _type stands for the stored type       *)
(* element of each class (_type, _return_type, _aliased, _underlying_type) *)
(* and type for what it resolves to; rawname and rawdesc keep the name    *)
(* and the detaileddescription that Entity.__init__ read from the element. *)

\* the value of an attribute removed by delattr
Deleted ==
    [present |-> FALSE, tag |-> "<deleted>", refid |-> NoId, text |-> <<>>,
     children |-> <<>>, tail |-> <<>>]

\* the value of a list attribute removed by delattr
DeletedList ==
    <<Deleted>>

BlankObj ==
    [cls |-> "", id |-> NoId, name |-> <<>>, rawname |-> <<>>,
     rawdesc |-> NoElem,
     scope |-> None, access |-> "public",
     has_members |-> FALSE, members |-> <<>>,
     has_nested |-> FALSE, _nested |-> <<>>,
     is_scoped |-> FALSE, enum |-> None, objects |-> <<>>,
     is_static |-> FALSE, is_friend |-> FALSE, is_free |-> FALSE,
     overload_set |-> None, funcs |-> <<>>,
     _brief |-> NoElem, _description |-> NoElem, _type |-> NoElem,
     _value |-> NoElem, _bases |-> <<>>, bases |-> <<>>,
     _parameters |-> <<>>, parameters |-> <<>>,
     _template_parameters |-> <<>>, template_parameters |-> <<>>,
     state |-> "raw",
     brief |-> <<>>, description |-> <<>>, overload_specific |-> <<>>,
     type |-> NonePart, value |-> NonePart]

CompoundClasses == {"Namespace", "Class", "Struct", "Union", "Group"}
ScopeClasses == {"Namespace", "Class", "Struct", "Union", "Enum"}
ClassClasses == {"Class", "Struct", "Union"}

\* keys of a members dict: a member name, or the tuple (name, access, kind)
\* of an overload set; a str never equals a tuple
NameKey(name) ==
    [name |-> name, access |-> "", kind |-> ""]

OverloadKey(name, access, kind) ==
    [name |-> name, access |-> access, kind |-> kind]

MembersHas(m, key) ==
    \E i \in 1..Len(m) : m[i].key = key

MembersGet(m, key) ==
    m[CHOOSE i \in 1..Len(m) : m[i].key = key].ent

MembersPut(m, key, ent) ==
    IF MembersHas(m, key)
    THEN [i \in 1..Len(m) |->
            IF m[i].key = key THEN [key |-> key, ent |-> ent] ELSE m[i]]
    ELSE Append(m, [key |-> key, ent |-> ent])

\* Function.kind
FunctionKindOf(f) ==
    IF f.is_friend THEN "friend"
    ELSE IF f.is_free THEN "free"
    ELSE IF f.is_static THEN "static"
    ELSE "nonstatic"

----------------------------------------------------------------------------
(* Overload Set Organizer *)

\* the round of _resort with n = 0 whatever briefs_backwards holds
ResortInsertFront(acc, func, brief, k) ==
    [funcs |-> InsertAt(acc.funcs, 0, func),
     briefs |-> InsertAt(acc.briefs, 0, brief)]

\* the round of _resort inserting behind the brief it found
ResortInsertBehind(acc, func, brief, k) ==
    [funcs |-> InsertAt(acc.funcs, IF k = -1 THEN 0 ELSE k + 1, func),
     briefs |-> InsertAt(acc.briefs, IF k = -1 THEN 0 ELSE k + 1, brief)]

\* one round of the loop of _resort on acc = [funcs, briefs], the two
\* backwards lists: n is briefs_backwards.index(brief), or 0 when that raises
ResortInsert(acc, func, brief, k) ==
    [funcs |-> InsertAt(acc.funcs, IF k = -1 THEN 0 ELSE k, func),
     briefs |-> InsertAt(acc.briefs, IF k = -1 THEN 0 ELSE k, brief)]

\* the loop of _resort returning funcs_backwards without reversing it
RECURSIVE ResortStepNoReverse(_, _, _, _)
ResortStepNoReverse(funcs, briefs, i, acc) ==
    IF i > Len(funcs) THEN acc.funcs
    ELSE With(ResortInsert(acc, funcs[i], briefs[i],
                           IndexOf(acc.briefs, briefs[i])),
              LAMBDA a : ResortStepNoReverse(funcs, briefs, i + 1, a))

RECURSIVE ResortStep(_, _, _, _)
ResortStep(funcs, briefs, i, acc) ==
    IF i > Len(funcs) THEN Reverse(acc.funcs)
    ELSE With(ResortInsert(acc, funcs[i], briefs[i],
                           IndexOf(acc.briefs, briefs[i])),
              LAMBDA a : ResortStep(funcs, briefs, i + 1, a))

\* OverloadSet._resort: the new self.funcs; briefs[i] is the brief string
\* of funcs[i]
Resort(funcs, briefs) ==
    ResortStep(funcs, briefs, 1, [funcs |-> <<>>, briefs |-> <<>>])

\* ''.join(func._brief.itertext()) if func._brief is not None else ''
BriefString(f) ==
    IterText(f._brief)

ResortOn(heap, funcs) ==
    Resort(funcs, [i \in 1..Len(funcs) |-> BriefString(heap[funcs[i]])])

----------------------------------------------------------------------------
(* Entity Graph Builder.  A builder state b = [ok, objs, index]: ok turns  *)
(* FALSE when a constructor raises.                                        *)

Fail(b) ==
    [b EXCEPT !.ok = FALSE]

\* Entity.__init__: the new object gets the next handle and is registered
EntityInit(b, obj) ==
    IF ~b.ok THEN b
    ELSE IF obj.id = NoId THEN Fail(b)
    ELSE [b EXCEPT !.objs = Append(@, obj),
                   !.index = IndexPut(@, obj.id, Len(b.objs) + 1)]

\* the handle of the object the last constructor made
Last(b) ==
    Len(b.objs)

\* an assert after the constructor chain has run
Require(b, cond) ==
    IF b.ok /\ ~cond THEN Fail(b) ELSE b

\* Member.__init__ on top of Entity.__init__ (and Value's flags)
MemberObj(cls, md, scope) ==
    [BlankObj EXCEPT !.cls = cls, !.id = md.id, !.name = md.name,
                     !.rawname = md.name,
                     !.scope = scope,
                     !.access = IF md.prot # "" THEN md.prot ELSE "public",
                     !.is_static = md.static,
                     !._brief = md.brief, !._description = md.desc,
                     !.rawdesc = md.desc,
                     !._template_parameters = md.tparams]

\* Variable.__init__
VariableInit(b, md, parent) ==
    EntityInit(b, [MemberObj("Variable", md, parent) EXCEPT
                       !._value = md.init, !._type = md.type])

\* TypeAlias.__init__
TypeAliasInit(b, md, parent) ==
    Require(EntityInit(b, [MemberObj("TypeAlias", md, parent) EXCEPT
                               !._type = md.type]),
            md.type.present)

\* Function.__init__
FunctionInit(b, md, parent) ==
    Require(EntityInit(b, [MemberObj("Function", md, parent) EXCEPT
                               !.is_friend = (md.sect = "friend"),
                               !.is_free = (md.sect = "related"),
                               !._type = md.type,
                               !._parameters = md.params]),
            \/ md.name = b.objs[parent].name
            \/ md.name = <<"~">> \o b.objs[parent].name
            \/ md.type.present)

\* members[key] = overload_set and func.overload_set = overload_set
Attach(heap, parent, key, os, func) ==
    [heap EXCEPT ![func].overload_set = os,
                 ![parent].members = MembersPut(@, key, os)]

\* OverloadSet.create after func = Function(...), followed by the insertion
\* Scope.__init__ makes under the tuple key
AddToOverloadSet(b, parent, func, key) ==
    IF ~b.ok THEN b
    ELSE IF MembersHas(b.objs[parent].members, key)
    THEN With(MembersGet(b.objs[parent].members, key),
              LAMBDA os :
                [b EXCEPT !.objs =
                    Attach([b.objs EXCEPT ![os].funcs =
                               ResortOn(b.objs, Append(b.objs[os].funcs, func))],
                           parent, key, os, func)])
    ELSE With(Append(b.objs, [BlankObj EXCEPT !.cls = "OverloadSet",
                                              !.funcs = <<func>>]),
              LAMBDA heap :
                [b EXCEPT !.objs =
                    Attach([heap EXCEPT ![Len(heap)].funcs =
                               ResortOn(heap, <<func>>)],
                           parent, key, Len(heap), func)])

\* key = (func.name, func.access), the kind left out
KeyOfNameAccess(f) ==
    OverloadKey(f.name, f.access, "")

\* key = (func.name, func.access, func.kind)
KeyOf(f) ==
    OverloadKey(f.name, f.access, FunctionKindOf(f))

OverloadSetCreate(b, md, parent) ==
    With(FunctionInit(b, md, parent),
         LAMBDA b1 : IF b1.ok
                     THEN AddToOverloadSet(b1, parent, Last(b1),
                                           KeyOf(b1.objs[Last(b1)]))
                     ELSE b1)

\* Enum.__init__, the body of its loop after the Enumerator was made
InsertEnumerator(b, enum, enumerator, scope) ==
    IF ~b.ok THEN b
    ELSE IF scope = None THEN Fail(b)
    ELSE IF MembersHas(b.objs[scope].members, NameKey(b.objs[enumerator].name))
    THEN Fail([b EXCEPT !.objs[enum].objects = Append(@, enumerator)])
    ELSE [b EXCEPT !.objs[enum].objects = Append(@, enumerator),
                   !.objs[scope].members =
                       MembersPut(@, NameKey(b.objs[enumerator].name), enumerator)]

\* Enumerator.__init__
EnumeratorInit(b, ev, enum, scope) ==
    EntityInit(b, [MemberObj("Enumerator", ev, enum) EXCEPT
                       !._value = ev.init, !._type = ev.type,
                       !.is_static = TRUE, !.enum = enum, !.scope = scope])

\* self.scope = parent.scope whatever parent.is_scoped is
EnumeratorScopeEnclosing(heap, enum) ==
    heap[enum].scope

\* self.scope = parent if parent.is_scoped else parent.scope
EnumeratorScope(heap, enum) ==
    IF heap[enum].is_scoped THEN enum ELSE heap[enum].scope

RECURSIVE EnumValues(_, _, _, _)
EnumValues(b, values, i, enum) ==
    IF ~b.ok \/ i > Len(values) THEN b
    ELSE With(With(EnumeratorInit(b, values[i], enum,
                                  EnumeratorScope(b.objs, enum)),
                   LAMBDA b1 : InsertEnumerator(b1, enum, Last(b1),
                                                EnumeratorScope(b.objs, enum))),
              LAMBDA b2 : EnumValues(b2, values, i + 1, enum))

\* Enum.__init__
EnumInit(b, md, parent) ==
    With(Require(EntityInit(b, [MemberObj("Enum", md, parent) EXCEPT
                                   !.name = IF NormalizeScopeName(md.name).ok
                                            THEN NormalizeScopeName(md.name).name
                                            ELSE md.name,
                                   !.has_members = TRUE,
                                   !.is_scoped = md.strong, !._type = md.type]),
                 NormalizeScopeName(md.name).ok),
         LAMBDA b1 : EnumValues(b1, md.values, 1, Last(b1)))

ClassText == <<"c", "l", "a", "s", "s">>

MemberKinds == {"function", "friend", "variable", "typedef", "enum"}

\* self.members[member.name] = member without the assert before it
InsertMemberOverwrite(b, self, member) ==
    IF ~b.ok THEN b
    ELSE [b EXCEPT !.objs[self].members =
             MembersPut(@, NameKey(b.objs[member].name), member)]

\* assert member.name not in self.members; self.members[member.name] = member
InsertMember(b, self, member) ==
    IF ~b.ok THEN b
    ELSE IF MembersHas(b.objs[self].members, NameKey(b.objs[member].name))
    THEN Fail(b)
    ELSE [b EXCEPT !.objs[self].members =
             MembersPut(@, NameKey(b.objs[member].name), member)]

\* the factories of Scope.__init__ other than OverloadSet.create
MemberFactory(b, md, self) ==
    IF md.kind = "variable" THEN VariableInit(b, md, self)
    ELSE IF md.kind = "typedef" THEN TypeAliasInit(b, md, self)
    ELSE EnumInit(b, md, self)

\* one round of the memberdef loop of Scope.__init__; a factory's own
\* object is the first it allocates
ScopeMember(b, md, self) ==
    IF md.kind = "friend" /\ ~md.type.present THEN Fail(b)
    ELSE IF md.kind = "friend" /\ md.type.text = ClassText THEN b
    ELSE IF md.kind \notin MemberKinds THEN Fail(b)
    ELSE IF md.kind \in {"function", "friend"}
    THEN OverloadSetCreate(b, md, self)
    ELSE With(MemberFactory(b, md, self),
              LAMBDA b1 : InsertMember(b1, self, Len(b.objs) + 1))

\* the memberdef loop of Scope.__init__
RECURSIVE ScopeMembers(_, _, _, _)
ScopeMembers(b, mems, i, self) ==
    IF ~b.ok \/ i > Len(mems) THEN b
    ELSE With(ScopeMember(b, mems[i], self),
              LAMBDA b1 : ScopeMembers(b1, mems, i + 1, self))

Factory ==
    [class |-> "Class", namespace |-> "Namespace", struct |-> "Struct",
     union |-> "Union", group |-> "Group"]

\* Compound.__init__: the (access, refid) pairs of the inner* elements
NestedOf(element) ==
    [i \in 1..Len(element.inner) |->
        [prot |-> IF element.inner[i].prot = ""
                  THEN "public" ELSE element.inner[i].prot,
         refid |-> element.inner[i].refid]]

\* Entity.__init__ and Compound.__init__ of a compound
CompoundInit(b, element) ==
    EntityInit(b, [BlankObj EXCEPT
        !.cls = Factory[element.kind], !.id = element.id,
        !.name = element.name, !.rawname = element.name,
        !._brief = element.brief, !._description = element.desc,
        !.rawdesc = element.desc,
        !.has_members = TRUE, !.has_nested = TRUE,
        !._nested = NestedOf(element),
        !._bases = IF element.kind \in {"class", "struct", "union"}
                   THEN element.bases ELSE <<>>,
        !._template_parameters =
            IF element.kind \in {"class", "struct", "union"}
            THEN element.tparams ELSE <<>>])

\* Scope.__init__ after super().__init__()
ScopeInit(b, element, self, norm) ==
    IF ~b.ok THEN b
    ELSE IF ~norm.ok THEN Fail(b)
    ELSE ScopeMembers([b EXCEPT !.objs[self].name = norm.name],
                      element.members, 1, self)

\* factory(element, result) of collect_data: Group.__init__, or
\* Namespace/Class.__init__ through Scope, Compound and Entity
BuildCompoundDef(b, element) ==
    With(CompoundInit(b, element),
         LAMBDA b1 : IF element.kind = "group" THEN b1
                     ELSE ScopeInit(b1, element, Last(b1),
                                    NormalizeScopeName(element.name)))

----------------------------------------------------------------------------
(* Scope Wiring Pass *)

\* the round of update_scopes with index.get(refid) and a skip of None in
\* place of index[refid]
WireNestedSkipDangling(u, idx, self, rec, entity) ==
    IF ~IndexHas(idx, rec.refid) THEN u
    ELSE IF MembersHas(u.objs[self].members, NameKey(u.objs[entity].name))
    THEN [ok |-> FALSE,
          objs |-> [u.objs EXCEPT ![entity].scope = self,
                                  ![entity].access = rec.prot]]
    ELSE [ok |-> TRUE,
          objs |-> [u.objs EXCEPT
                      ![entity].scope = self,
                      ![entity].access = rec.prot,
                      ![self].members =
                          MembersPut(@, NameKey(u.objs[entity].name), entity)]]

\* one round of the loop of Compound.update_scopes on u = [ok, objs];
\* ok = FALSE when index[refid] or the assert raised (the assignments made
\* before it stay)
WireNested(u, idx, self, rec, entity) ==
    IF ~IndexHas(idx, rec.refid) THEN [u EXCEPT !.ok = FALSE]
    ELSE IF MembersHas(u.objs[self].members, NameKey(u.objs[entity].name))
    THEN [ok |-> FALSE,
          objs |-> [u.objs EXCEPT ![entity].scope = self,
                                  ![entity].access = rec.prot]]
    ELSE [ok |-> TRUE,
          objs |-> [u.objs EXCEPT
                      ![entity].scope = self,
                      ![entity].access = rec.prot,
                      ![self].members =
                          MembersPut(@, NameKey(u.objs[entity].name), entity)]]

\* the loop of Compound.update_scopes and the delattr after it
RECURSIVE NestedLoop(_, _, _, _, _)
NestedLoop(u, idx, self, nested, i) ==
    IF ~u.ok THEN u
    ELSE IF i > Len(nested)
    THEN [u EXCEPT !.objs[self].has_nested = FALSE,
                   !.objs[self]._nested = <<>>]
    ELSE With(WireNested(u, idx, self, nested[i],
                         IndexGet(idx, nested[i].refid)),
              LAMBDA u1 : NestedLoop(u1, idx, self, nested, i + 1))

\* entity.update_scopes(): Entity's does nothing, Compound's wires _nested
update_scopes(heap, idx, self) ==
    IF heap[self].cls \in CompoundClasses
    THEN IF heap[self].has_nested
         THEN NestedLoop([ok |-> TRUE, objs |-> heap], idx, self,
                         heap[self]._nested, 1)
         ELSE [ok |-> FALSE, objs |-> heap]
    ELSE [ok |-> TRUE, objs |-> heap]

----------------------------------------------------------------------------
(* Cross-Reference Resolver.  A resolver state r = [ok, objs, log].        *)

OverloadSpecific ==
    <<"o", "v", "e", "r", "l", "o", "a", "d", "_",
      "s", "p", "e", "c", "i", "f", "i", "c">>

HasChild(e, tag) ==
    \E i \in 1..Len(e.children) : e.children[i].tag = tag

\* the position of the first child with that tag
ChildPos(e, tag) ==
    CHOOSE i \in 1..Len(e.children) :
        /\ e.children[i].tag = tag
        /\ \A j \in 1..(i - 1) : e.children[j].tag # tag

\* element.find(tag): the first child with that tag, or None
FindChild(e, tag) ==
    IF HasChild(e, tag) THEN e.children[ChildPos(e, tag)] ELSE NoElem

\* the element without its first child tagged `tag` (Element.remove drops
\* the child together with its tail)
RemoveChild(e, tag) ==
    [e EXCEPT !.children =
        SubSeq(@, 1, ChildPos(e, tag) - 1)
        \o SubSeq(@, ChildPos(e, tag) + 1, Len(@))]

HoldsXref(d, i) ==
    \/ d.children[i].tag = "xrefsect"
    \/ HasChild(d.children[i], "xrefsect")

\* _description.find('.//xrefsect/..') for an xrefsect at depth one or two:
\* 0 when the description holds it, k when its k-th child does, -1 for None
XrefHolder(d) ==
    IF \E i \in 1..Len(d.children) : HoldsXref(d, i)
    THEN With(CHOOSE i \in 1..Len(d.children) :
                  HoldsXref(d, i) /\ \A j \in 1..(i - 1) : ~HoldsXref(d, j),
              LAMBDA k : IF d.children[k].tag = "xrefsect" THEN 0 ELSE k)
    ELSE -1

\* Entity.resolve_references without its delattrs
StoreDescriptionsKeepRaw(r, self, b, d) ==
    IF ~b.ok \/ ~d.ok THEN [r EXCEPT !.ok = FALSE]
    ELSE [ok |-> TRUE,
          objs |-> [r.objs EXCEPT ![self].brief = b.val,
                                  ![self].description = d.val,
                                  ![self].state = "resolved"],
          log |-> r.log \cup b.log \cup d.log]

\* the two assignments and delattrs of Entity.resolve_references
StoreDescriptions(r, self, b, d) ==
    IF ~b.ok THEN [r EXCEPT !.ok = FALSE]
    ELSE IF ~d.ok
    THEN [ok |-> FALSE,
          objs |-> [r.objs EXCEPT ![self].brief = b.val,
                                  ![self]._brief = Deleted],
          log |-> r.log \cup b.log]
    ELSE [ok |-> TRUE,
          objs |-> [r.objs EXCEPT ![self].brief = b.val,
                                  ![self]._brief = Deleted,
                                  ![self].description = d.val,
                                  ![self]._description = Deleted,
                                  ![self].state = "resolved"],
          log |-> r.log \cup b.log \cup d.log]

\* Entity.resolve_references
ResolveEntityPart(r, idx, self) ==
    IF ~r.ok THEN r
    ELSE With(<<make_blocks(r.objs[self]._brief, idx),
                make_blocks(r.objs[self]._description, idx)>>,
              LAMBDA bd : StoreDescriptions(r, self, bd[1], bd[2]))

\* Compound.resolve_references, after super()
ResolveCompoundPart(r, idx, self) ==
    IF ~r.ok THEN r
    ELSE IF r.objs[self].has_nested /\ r.objs[self]._nested # <<>>
    THEN With(update_scopes(r.objs, idx, self),
              LAMBDA u : [r EXCEPT !.ok = u.ok, !.objs = u.objs])
    ELSE r

\* the functions of the overload sets among the members of a namespace
FunctionsOf(heap, self) ==
    UNION {{heap[os].funcs[j] : j \in 1..Len(heap[os].funcs)} :
            os \in {m \in {heap[self].members[i].ent :
                            i \in 1..Len(heap[self].members)} :
                      heap[m].cls = "OverloadSet"}}

\* the loop of Namespace.resolve_references: func.is_free = True
MarkFree(heap, free) ==
    [h \in 1..Len(heap) |->
        IF h \in free THEN [heap[h] EXCEPT !.is_free = TRUE] ELSE heap[h]]

\* the part of a resolve_references that resolves one stored element with
\* text_with_refs or resolve_type into the field `type` or `value`
ResolveField(r, res, self, field) ==
    IF ~r.ok THEN r
    ELSE IF ~res.ok THEN [r EXCEPT !.ok = FALSE]
    ELSE [ok |-> TRUE,
          objs |-> IF field = "type"
                   THEN [r.objs EXCEPT ![self].type = res.val,
                                       ![self]._type = Deleted]
                   ELSE [r.objs EXCEPT ![self].value = res.val,
                                       ![self]._value = Deleted],
          log |-> r.log \cup res.log]

\* Function.resolve_references without node.remove(subnode)
ExtractOverloadSpecificKept(r, self, d, k, xreftitle, xrefdescription, os) ==
    IF ~xreftitle.present \/ xreftitle.text # OverloadSpecific
       \/ ~xrefdescription.present \/ ~os.ok
    THEN [r EXCEPT !.ok = FALSE]
    ELSE [ok |-> TRUE,
          objs |-> [r.objs EXCEPT ![self].overload_specific = os.val],
          log |-> r.log \cup os.log]

\* the asserts on the xrefsect and the extraction of its description
ExtractOverloadSpecific(r, self, d, k, xreftitle, xrefdescription, os) ==
    IF ~xreftitle.present \/ xreftitle.text # OverloadSpecific
       \/ ~xrefdescription.present \/ ~os.ok
    THEN [r EXCEPT !.ok = FALSE]
    ELSE [ok |-> TRUE,
          objs |-> [r.objs EXCEPT
                      ![self].overload_specific = os.val,
                      ![self]._description =
                          IF k = 0 THEN RemoveChild(d, "xrefsect")
                          ELSE [d EXCEPT !.children[k] =
                                   RemoveChild(d.children[k], "xrefsect")]],
          log |-> r.log \cup os.log]

\* Function.resolve_references up to super().resolve_references(); node is
\* the element holding the xrefsect
OverloadSpecificOf(r, idx, self, d, k, subnode) ==
    ExtractOverloadSpecific(r, self, d, k,
        FindChild(subnode, "xreftitle"),
        FindChild(subnode, "xrefdescription"),
        make_blocks(FindChild(subnode, "xrefdescription"), idx))

ResolveOverloadSpecific(r, idx, self) ==
    With(<<r.objs[self]._description, XrefHolder(r.objs[self]._description)>>,
         LAMBDA dk :
            IF ~dk[1].present THEN [r EXCEPT !.ok = FALSE]
            ELSE IF dk[2] = -1 THEN r
            ELSE OverloadSpecificOf(r, idx, self, dk[1], dk[2],
                    FindChild(IF dk[2] = 0 THEN dk[1]
                              ELSE dk[1].children[dk[2]], "xrefsect")))

\* Enumerator.resolve_references after super()
EnumeratorType(r, self, enum) ==
    IF r.ok
    THEN [r EXCEPT !.objs[self].type =
            MkPhrase("Phrase", None,
               <<MkPhrase("EntityRef", enum, <<StrPart(r.objs[enum].name)>>)>>)]
    ELSE r

\* Variable.resolve_references after super()
ResolveVariablePart(r, idx, self, e) ==
    With(ResolveField(r, text_with_refs(e._value, idx), self, "value"),
         LAMBDA r1 : ResolveField(r1, resolve_type(e._type, idx), self, "type"))

\* qname.split('::')
RECURSIVE SplitColons(_, _, _)
SplitColons(s, part, i) ==
    IF i > Len(s) THEN <<part>>
    ELSE IF i < Len(s) /\ s[i] = ":" /\ s[i + 1] = ":"
    THEN <<part>> \o SplitColons(s, <<>>, i + 2)
    ELSE SplitColons(s, Append(part, s[i]), i + 1)

\* entity.name and entity.id, which an OverloadSet takes from its first
\* function through __getattr__
ProxyOf(heap, m) ==
    IF heap[m].cls = "OverloadSet" THEN heap[m].funcs[1] ELSE m

\* whether scope.members exists
HasMembersTable(heap, m) ==
    heap[ProxyOf(heap, m)].has_members

\* the inner loop of lookup: the first member of scope named part, or None
FindMember(heap, scope, part) ==
    With(heap[scope].members, LAMBDA ms :
        IF \E i \in 1..Len(ms) : heap[ProxyOf(heap, ms[i].ent)].name = part
        THEN ms[CHOOSE i \in 1..Len(ms) :
                    /\ heap[ProxyOf(heap, ms[i].ent)].name = part
                    /\ \A j \in 1..(i - 1) :
                          heap[ProxyOf(heap, ms[j].ent)].name # part].ent
        ELSE None)

\* the while loop of lookup: the scope it stops at, None past the outermost
\* scope; ok is FALSE when scope.members raises AttributeError
RECURSIVE LookupUp(_, _, _)
LookupUp(heap, scope, first) ==
    IF scope = None THEN [ok |-> TRUE, ent |-> None]
    ELSE IF heap[ProxyOf(heap, scope)].name = first
    THEN [ok |-> TRUE, ent |-> scope]
    ELSE IF ~HasMembersTable(heap, scope) THEN [ok |-> FALSE, ent |-> None]
    ELSE IF FindMember(heap, scope, first) # None
    THEN [ok |-> TRUE, ent |-> scope]
    ELSE LookupUp(heap, heap[scope].scope, first)

\* the for loop of lookup from name_parts[i] on
RECURSIVE LookupDown(_, _, _, _)
LookupDown(heap, scope, parts, i) ==
    IF i > Len(parts) THEN [ok |-> TRUE, ent |-> scope]
    ELSE IF heap[ProxyOf(heap, scope)].name = parts[i]
    THEN LookupDown(heap, scope, parts, i + 1)
    ELSE IF ~HasMembersTable(heap, scope) THEN [ok |-> FALSE, ent |-> None]
    ELSE With(FindMember(heap, scope, parts[i]), LAMBDA found :
            IF found = None THEN [ok |-> TRUE, ent |-> None]
            ELSE LookupDown(heap, found, parts, i + 1))

\* Entity.lookup
lookup(heap, self, qname) ==
    With(SplitColons(qname, <<>>, 1), LAMBDA name_parts :
        With(LookupUp(heap, self, name_parts[1]), LAMBDA up :
            IF ~up.ok \/ up.ent = None THEN up
            ELSE LookupDown(heap, up.ent, name_parts, 1)))

\* str.strip()
strip(s) ==
    rstrip(lstrip(s))

\* Generalization.__init__ from `if refid:` on
GeneralizationBase(element, idx, refid) ==
    IF refid # NoId
    THEN With(make_entity_reference(element, idx, refid, FALSE),
              LAMBDA r : Ret(r.ok, MkPhrase("Phrase", None, <<r.val>>), r.log))
    ELSE text_with_refs(element, idx)

\* Generalization.__init__ of one basecompoundref: the assert on prot, the
\* lookup when the element has no refid, and the base
Generalization(heap, idx, b, derived) ==
    IF b.prot = "" THEN Raised
    ELSE IF b.elem.refid # NoId
    THEN GeneralizationBase(b.elem, idx, b.elem.refid)
    ELSE With(lookup(heap, derived, strip(IterText(b.elem))), LAMBDA l :
            IF ~l.ok THEN Raised
            ELSE GeneralizationBase(b.elem, idx,
                    IF l.ent = None THEN NoId
                    ELSE heap[ProxyOf(heap, l.ent)].id))

\* [Generalization(entry, self) for entry in self._bases] from entry i on
RECURSIVE Generalizations(_, _, _, _, _)
Generalizations(heap, idx, self, i, acc) ==
    IF ~acc.ok \/ i > Len(heap[self]._bases) THEN acc
    ELSE With(Generalization(heap, idx, heap[self]._bases[i], self),
              LAMBDA g :
                Generalizations(heap, idx, self, i + 1,
                    Ret(g.ok,
                        Append(acc.val, [access |-> heap[self]._bases[i].prot,
                                         base |-> g.val]),
                        acc.log \cup g.log)))

\* Class.resolve_references, after super()
ResolveBases(r, idx, self) ==
    IF ~r.ok THEN r
    ELSE With(Generalizations(r.objs, idx, self, 1, Ret(TRUE, <<>>, {})),
              LAMBDA g :
                IF ~g.ok THEN [r EXCEPT !.ok = FALSE]
                ELSE [ok |-> TRUE,
                      objs |-> [r.objs EXCEPT ![self].bases = g.val,
                                              ![self]._bases = DeletedList],
                      log |-> r.log \cup g.log])

\* Parameter.__init__, the array-suffix adjustment: the type without the
\* (&) that its last text run ends with
AmpersandRef == <<"(", "&", ")">>

EndsWith(t, suffix) ==
    Len(t) >= Len(suffix)
    /\ SubSeq(t, Len(t) - Len(suffix) + 1, Len(t)) = suffix

AdjustArray(type, array) ==
    IF array.parts = <<>> THEN Ret(TRUE, type, {})
    ELSE IF type.parts = <<>> THEN Raised
    ELSE With(type.parts[Len(type.parts)], LAMBDA last :
            IF last.kind # "str" \/ ~EndsWith(last.text, AmpersandRef)
            THEN Raised
            ELSE Ret(TRUE,
                     [type EXCEPT !.parts[Len(type.parts)] =
                        StrPart(SubSeq(last.text, 1, Len(last.text) - 3))],
                     {}))

\* Parameter.__init__ once its four parsing calls have returned
ParameterOf(p, type, defval, descr, array) ==
    IF ~(type.ok /\ defval.ok /\ descr.ok /\ array.ok) THEN Raised
    ELSE With(AdjustArray(type.val, array.val), LAMBDA t :
            IF ~t.ok THEN Raised
            ELSE Ret(TRUE,
                     [type |-> t.val, default_value |-> defval.val,
                      description |-> descr.val,
                      name |-> IF p.declname.present THEN p.declname.text
                               ELSE <<>>,
                      array |-> array.val],
                     type.log \cup defval.log \cup descr.log \cup array.log))

\* Parameter.__init__: the description is parsed with the parent entity in
\* the place of the index
Parameter(p, idx) ==
    ParameterOf(p, text_with_refs(p.type, idx), text_with_refs(p.defval, idx),
                IF p.brief.present THEN make_blocks(p.brief, EntityAsIndex)
                ELSE Ret(TRUE, <<>>, {}),
                text_with_refs(p.array, idx))

\* [Parameter(elem, self) for elem in params] from elem i on
RECURSIVE Parameters(_, _, _, _)
Parameters(params, idx, i, acc) ==
    IF ~acc.ok \/ i > Len(params) THEN acc
    ELSE Parameters(params, idx, i + 1, AppendRet(acc, Parameter(params[i], idx)))

\* the classes that inherit Templatable.resolve_references
TemplatableClasses ==
    {"Class", "Struct", "Union", "Enum", "Function", "Variable", "Enumerator",
     "TypeAlias"}

\* Templatable.resolve_references, after super()
ResolveTemplatePart(r, idx, self) ==
    IF ~r.ok \/ r.objs[self].cls \notin TemplatableClasses THEN r
    ELSE With(Parameters(r.objs[self]._template_parameters, idx, 1,
                         Ret(TRUE, <<>>, {})),
              LAMBDA ps :
                IF ~ps.ok THEN [r EXCEPT !.ok = FALSE]
                ELSE [ok |-> TRUE,
                      objs |-> [r.objs EXCEPT
                                  ![self].template_parameters = ps.val,
                                  ![self]._template_parameters = DeletedList],
                      log |-> r.log \cup ps.log])

\* Function.resolve_references, the parameters
ResolveParameters(r, idx, self) ==
    IF ~r.ok THEN r
    ELSE With(Parameters(r.objs[self]._parameters, idx, 1, Ret(TRUE, <<>>, {})),
              LAMBDA ps :
                IF ~ps.ok THEN [r EXCEPT !.ok = FALSE]
                ELSE [ok |-> TRUE,
                      objs |-> [r.objs EXCEPT
                                  ![self].parameters = ps.val,
                                  ![self]._parameters = DeletedList],
                      log |-> r.log \cup ps.log])

\* what the class of the entity adds to Entity.resolve_references
ResolveClassPart(r, idx, self, e) ==
    IF ~r.ok THEN r
    ELSE IF e.cls \in CompoundClasses
    THEN With(ResolveCompoundPart(r, idx, self),
              LAMBDA r1 : IF r1.ok /\ e.cls = "Namespace"
                          THEN [r1 EXCEPT !.objs =
                                  MarkFree(r1.objs, FunctionsOf(r1.objs, self))]
                          ELSE IF e.cls \in ClassClasses
                          THEN ResolveBases(r1, idx, self)
                          ELSE r1)
    ELSE IF e.cls \in {"Enum", "TypeAlias"}
    THEN ResolveField(r, text_with_refs(e._type, idx), self, "type")
    ELSE IF e.cls \in {"Variable", "Enumerator"}
    THEN With(ResolveVariablePart(r, idx, self, e),
              LAMBDA r1 : IF e.cls = "Enumerator"
                          THEN EnumeratorType(r1, self, e.enum) ELSE r1)
    ELSE With(ResolveField(r, resolve_type(e._type, idx), self, "type"),
              LAMBDA r1 : ResolveParameters(r1, idx, self))

\* entity.resolve_references() by the class of the entity
resolve_references(heap, idx, self) ==
    With(With(IF heap[self].cls = "Function"
              THEN ResolveOverloadSpecific(
                      [ok |-> TRUE, objs |-> heap, log |-> {}], idx, self)
              ELSE [ok |-> TRUE, objs |-> heap, log |-> {}],
              LAMBDA r0 : ResolveTemplatePart(
                              ResolveEntityPart(r0, idx, self), idx, self)),
         LAMBDA r : ResolveClassPart(r, idx, self, heap[self]))

----------------------------------------------------------------------------
(* Input documents.  A run reads documents of one of these families:       *)
(*  "nesting":   up to MaxCompounds compounds that list each other as      *)
(*               inner compounds (a listed id beyond the index is dangling)*)
(*  "members":   one compound with up to MaxMembers memberdefs drawn from  *)
(*               MemberLib                                                 *)
(*  "overloads": one namespace with up to MaxFuncs functions named f       *)
(*  "names":     one class whose compoundname is any string of up to       *)
(*               MaxName characters of NameAlphabet, or one of LongNames   *)
(*  "operators": one namespace with one function whose name is any string  *)
(*               of 1..MaxSeg characters of SegAlphabet, or one of LongSegs*)
(*  "paragraphs": one namespace with one variable described by one para:   *)
(*               a text of ParaTexts and up to MaxParts linebreak or bold  *)
(*               elements, each with a tail of ParaTexts                   *)
(*  "xrefs":     one namespace with one function whose description is one  *)
(*               of XrefDescs: no, one or two xrefsect blocks of any of    *)
(*               XrefShapes, in a para or beside the paras                 *)
(*  "lists":     one namespace with one variable described by one list of  *)
(*               1..MaxItems items of ListItemLib                          *)
(*  "params":    one namespace with one function that has one parameter or *)
(*               one template parameter of ParamLib                        *)
(*  "kinds":     one namespace or class with two or three functions named  *)
(*               f, static or not                                          *)
(*  "bases":     a namespace A with a type alias t, a function f and an    *)
(*               enum E, and a class A::B, nested in A or not, with one    *)
(*               base specifier of BaseRefs                                *)

Corpora == {"nesting", "members", "overloads", "names", "operators",
            "paragraphs", "xrefs", "lists", "params",
            "kinds", "bases"}

CId(j) == <<"c", j>>
MId(j) == <<"m", j>>
EId(j) == <<"e", j>>

\* an id that no document defines
Zz == <<"z", 0>>

Letters == <<"A", "B", "C", "D", "E", "F", "G", "H">>

CName(j) ==
    IF j = 1 THEN <<"A">> ELSE <<"A", ":", ":", Letters[j]>>

CompoundDef(kind, id, name, inner, members) ==
    [kind |-> kind, id |-> id, name |-> name, inner |-> inner,
     members |-> members, brief |-> NoElem, desc |-> NoElem,
     bases |-> <<>>, tparams |-> <<>>]

NoDoc ==
    CompoundDef("", NoId, <<>>, <<>>, <<>>)

Inner(p, j) ==
    [prot |-> p, refid |-> CId(j)]

InnerOptions(i) ==
    LET later == (i + 1)..MaxCompounds
    IN  {<<>>}
        \cup {<<Inner(p, j)>> : p \in {"", "private"}, j \in later}
        \cup {<<Inner("public", j), Inner("protected", j)>> : j \in later}
        \cup {<<Inner("public", jk[1]), Inner("public", jk[2])>> :
                    jk \in {x \in later \X later : x[1] < x[2]}}

NestingDocs(i) ==
    {CompoundDef(k, CId(i), CName(i), inn, <<>>) :
        k \in {"namespace", "class", "group"}, inn \in InnerOptions(i)}

Ref(id, text) ==
    Elem("ref", id, text, <<>>, <<>>)

Para(text, children) ==
    Elem("para", NoId, text, children, <<>>)

Description(children) ==
    Elem("detaileddescription", NoId, <<>>, children, <<>>)

Brief(text) ==
    Elem("briefdescription", NoId, <<>>, <<Para(text, <<>>)>>, <<>>)

TypeOf(text, children) ==
    Elem("type", NoId, text, children, <<>>)

Xrefsect(title, hasdescr) ==
    Elem("xrefsect", NoId, <<>>,
         (IF title # <<>> THEN <<Elem("xreftitle", NoId, title, <<>>, <<>>)>>
          ELSE <<>>)
         \o (IF hasdescr
             THEN <<Elem("xrefdescription", NoId, <<>>,
                         <<Para(<<"s">>, <<>>)>>, <<>>)>>
             ELSE <<>>),
         <<>>)

MemberDef(kind, id, name) ==
    [kind |-> kind, id |-> id, name |-> name, prot |-> "public",
     static |-> FALSE, sect |-> "public", strong |-> FALSE,
     type |-> TypeOf(<<"T">>, <<>>), values |-> <<>>,
     brief |-> NoElem, desc |-> Description(<<Para(<<"d">>, <<>>)>>),
     init |-> NoElem, params |-> <<>>, tparams |-> <<>>]

EnumValue(id, name) ==
    [MemberDef("enumvalue", id, name) EXCEPT !.type = NoElem]

MemberLib ==
    { \* a variable whose type links a registered id
      [MemberDef("variable", MId(1), <<"x">>) EXCEPT
          !.type = TypeOf(<<>>, <<Ref(CId(1), <<"T">>)>>)],
      \* a variable whose type links an id outside the corpus
      [MemberDef("variable", MId(2), <<"y">>) EXCEPT
          !.type = TypeOf(<<"c", " ">>, <<Ref(Zz, <<"U", "\n">>)>>)],
      \* a second memberdef carrying the id m1
      [MemberDef("variable", MId(1), <<"z">>) EXCEPT !.prot = ""],
      \* a type alias described with a link to a registered id
      [MemberDef("typedef", MId(3), <<"t">>) EXCEPT
          !.desc = Description(<<Para(<<"s", " ">>, <<Ref(CId(1), <<>>)>>)>>)],
      [MemberDef("enum", MId(4), <<"E">>) EXCEPT
          !.values = <<EnumValue(EId(1), <<"x">>), EnumValue(EId(2), <<"v">>)>>],
      [MemberDef("enum", MId(5), <<"F">>) EXCEPT
          !.strong = TRUE, !.prot = "private",
          !.values = <<EnumValue(EId(3), <<"x">>)>>],
      \* a function described with a link to an id outside the corpus
      [MemberDef("function", MId(6), <<"f">>) EXCEPT
          !.desc = Description(<<Para(<<>>, <<Ref(Zz, <<"U">>)>>)>>)],
      [MemberDef("function", MId(7), <<"f">>) EXCEPT
          !.desc = Description(
                     <<Para(<<"g">>, <<Xrefsect(OverloadSpecific, TRUE)>>)>>)],
      [MemberDef("function", MId(8), <<"f">>) EXCEPT
          !.static = TRUE,
          !.desc = Description(<<Para(<<>>, <<Xrefsect(<<"t">>, TRUE)>>)>>)],
      \* a memberdef of a kind the factory table does not have
      MemberDef("property", MId(9), <<"p">>),
      \* a friend class declaration
      [MemberDef("friend", MId(9), <<"q">>) EXCEPT
          !.sect = "friend", !.type = TypeOf(ClassText, <<>>)],
      \* a variable described with an inline element make_phrase does not know
      [MemberDef("variable", MId(9), <<"r">>) EXCEPT
          !.desc = Description(
                     <<Para(<<>>, <<Elem("formula", NoId, <<>>, <<>>, <<>>)>>)>>)],
      \* a memberdef without an id
      MemberDef("variable", NoId, <<"n">>) }

RECURSIVE SeqsUpTo(_, _)
SeqsUpTo(S, n) ==
    IF n = 0 THEN {<<>>}
    ELSE LET shorter == SeqsUpTo(S, n - 1)
         IN  shorter \cup {Append(q, x) : q \in shorter, x \in S}

MemberDocs ==
    {CompoundDef(k, CId(1), CName(1), <<>>, ms) :
        k \in {"namespace", "class"}, ms \in SeqsUpTo(MemberLib, MaxMembers)}
    \cup {CompoundDef("page", CId(1), CName(1), <<>>, <<>>)}

Briefs == {<<"x">>, <<"y">>, <<"z">>}

RECURSIVE OverloadDefs(_)
OverloadDefs(n) ==
    IF n = 0 THEN {<<>>}
    ELSE {Append(q, [MemberDef("function", MId(n), <<"f">>) EXCEPT
                        !.brief = Brief(t)]) :
            q \in OverloadDefs(n - 1), t \in Briefs}

OverloadDocs ==
    {CompoundDef("namespace", CId(1), CName(1), <<>>, ms) :
        ms \in UNION {OverloadDefs(n) : n \in 1..MaxFuncs}}

NameAlphabet == {"F", "B", ":", "<", ">"}

LongNames ==
    { <<"F", "o", "o", ":", ":", "F", "o", "o">>,
      <<"F", "o", "o", "<", "B", "a", "r", ":", ":", "B", "a", "z", ">">>,
      <<"F", "<", "B", "<", "F", ":", ":", "B", ">", ":", ":", "F", ">">>,
      <<"b", ":", ":", "m", ":", ":", "F", "<", "B", ">">> }

NameDocs ==
    {CompoundDef("class", CId(1), n, <<>>, <<>>) :
        n \in SeqsUpTo(NameAlphabet, MaxName) \cup LongNames}

SegAlphabet == {"<", "=", ">", "-", "~", "/"}

LongSegs ==
    { <<"o", "p", "e", "r", "a", "t", "o", "r", "<", "=", ">">>,
      <<"o", "p", "e", "r", "a", "t", "o", "r", "-", ">">>,
      <<"o", "p", "e", "r", "a", "t", "o", "r", "~">>,
      <<"o", "p", "e", "r", "a", "t", "o", "r", ">">>,
      <<"o", "p", "e", "r", "a", "t", "o", "r", ">", "=">>,
      <<"~", "F">>,
      <<"o", "p", "e", "r", "a", "t", "o", "r", "/">>,
      <<"a", "[", "b", "]", "(", "c", ")">>,
      <<"!", "+", "&", "|", "^", "*", "%", ",", ":", " ">> }

OperatorDocs ==
    {CompoundDef("namespace", CId(1), CName(1), <<>>,
                 <<MemberDef("function", MId(1), n)>>) :
        n \in (SeqsUpTo(SegAlphabet, MaxSeg) \ {<<>>}) \cup LongSegs}

ParaTexts ==
    {<<>>, <<" ">>, <<"a">>, <<" ", "a", " ">>, <<"\n">>}

Inlines ==
    {Elem("linebreak", NoId, <<>>, <<>>, t) : t \in ParaTexts}
    \cup {Elem("bold", NoId, <<"b">>, <<>>, t) : t \in ParaTexts}

ParagraphDocs ==
    {CompoundDef("namespace", CId(1), CName(1), <<>>,
        <<[MemberDef("variable", MId(1), <<"x">>) EXCEPT
              !.desc = Description(<<Para(t, kids)>>)]>>) :
        t \in ParaTexts, kids \in SeqsUpTo(Inlines, MaxParts)}

\* xrefsect elements with and without a title and a description, followed
\* by the text z
XrefShapes ==
    {[Xrefsect(t, d) EXCEPT !.tail = <<"z">>] :
        t \in {<<>>, <<"t">>, OverloadSpecific}, d \in BOOLEAN}

XrefDescs ==
    {Description(<<Para(<<"g">>, <<>>)>>)}
    \cup {Description(<<Para(<<"g">>, <<x>>)>>) : x \in XrefShapes}
    \cup {Description(<<Para(<<"g">>, <<>>), x>>) : x \in XrefShapes}
    \cup {Description(<<Para(<<"g">>, <<>>), Para(<<>>, <<x>>)>>) :
            x \in XrefShapes}
    \cup {Description(<<Para(<<"g">>, <<x, y>>)>>) :
            x \in {Xrefsect(OverloadSpecific, TRUE)}, y \in XrefShapes}

XrefDocs ==
    {CompoundDef("namespace", CId(1), CName(1), <<>>,
        <<[MemberDef("function", MId(1), <<"f">>) EXCEPT !.desc = d]>>) :
        d \in XrefDescs}

ListItem(children) ==
    Elem("listitem", NoId, <<>>, children, <<>>)

ItemizedList(items) ==
    Elem("itemizedlist", NoId, <<>>, items, <<>>)

\* a list item with text, an empty one, one of blanks and one with a list
ListItemLib ==
    {ListItem(<<Para(<<"a">>, <<>>)>>),
     ListItem(<<>>),
     ListItem(<<Para(<<" ">>, <<>>)>>),
     ListItem(<<Para(<<>>, <<ItemizedList(<<ListItem(<<Para(<<"b">>, <<>>)>>)>>)>>)>>)}

ListDocs ==
    {CompoundDef("namespace", CId(1), CName(1), <<>>,
        <<[MemberDef("variable", MId(1), <<"x">>) EXCEPT
              !.desc = Description(<<Para(<<>>, <<ItemizedList(items)>>)>>)]>>) :
        items \in SeqsUpTo(ListItemLib, MaxItems) \ {<<>>}}

\* a param element: its type, defval, briefdescription, declname and array
Param(type, brief, array) ==
    [type |-> type, defval |-> NoElem, brief |-> brief,
     declname |-> Elem("declname", NoId, <<"n">>, <<>>, <<>>),
     array |-> array]

ArrayOf(text) ==
    Elem("array", NoId, text, <<>>, <<>>)

ParamLib ==
    { \* no inline description
      Param(TypeOf(<<"T">>, <<>>), NoElem, NoElem),
      \* a type that links an id outside the corpus
      Param(TypeOf(<<>>, <<Ref(Zz, <<"U">>)>>), NoElem, NoElem),
      \* an inline description of text only
      Param(TypeOf(<<"T">>, <<>>), Brief(<<"p">>), NoElem),
      \* an inline description that links the registered namespace
      Param(TypeOf(<<"T">>, <<>>),
            Elem("briefdescription", NoId, <<>>,
                 <<Para(<<"p">>, <<Ref(CId(1), <<"A">>)>>)>>, <<>>),
            NoElem),
      \* an inline description that links an id outside the corpus
      Param(TypeOf(<<"T">>, <<>>),
            Elem("briefdescription", NoId, <<>>,
                 <<Para(<<"p">>, <<Ref(Zz, <<"U">>)>>)>>, <<>>),
            NoElem),
      \* a reference to an array, and an array whose type lacks the (&)
      Param(TypeOf(<<"T", "(", "&", ")">>, <<>>), NoElem, ArrayOf(<<"[", "]">>)),
      Param(TypeOf(<<"T">>, <<>>), NoElem, ArrayOf(<<"[", "]">>)) }

ParamDocs ==
    {CompoundDef("namespace", CId(1), CName(1), <<>>,
        <<[MemberDef("function", MId(1), <<"f">>) EXCEPT !.params = <<q>>]>>) :
        q \in ParamLib}
    \cup {CompoundDef("namespace", CId(1), CName(1), <<>>,
        <<[MemberDef("function", MId(1), <<"f">>) EXCEPT !.tparams = <<q>>]>>) :
        q \in ParamLib}

\* the function f with the id m<j>, static or not
KindDef(j, static) ==
    [MemberDef("function", MId(j), <<"f">>) EXCEPT !.static = static]

KindDocs ==
    {CompoundDef(k, CId(1), CName(1), <<>>, ms) :
        k \in {"namespace", "class"},
        ms \in {<<KindDef(1, s1), KindDef(2, s2)>> : s1, s2 \in BOOLEAN}
               \cup {<<KindDef(1, s1), KindDef(2, s2), KindDef(3, s1)>> :
                       s1, s2 \in BOOLEAN}}

\* a basecompoundref element with its prot attribute
BaseRef(prot, refid, text) ==
    [prot |-> prot, elem |-> Elem("basecompoundref", refid, text, <<>>, <<>>)]

BaseRefs ==
    {BaseRef("public", NoId, t) :
        t \in {<<"t">>, <<"A", ":", ":", "t">>, <<" ", "B", " ">>, <<"f">>,
               <<"Q">>, <<"A", ":", ":", "Q">>, <<"E", ":", ":", "Q">>,
               <<"E", ":", ":", "v">>, <<"t", ":", ":", "Q">>,
               <<"f", ":", ":", "Q">>}}
    \cup {BaseRef("public", CId(1), <<"A">>), BaseRef("public", Zz, <<"U">>),
          BaseRef("", NoId, <<"t">>)}

BaseDocs(i) ==
    IF i = 1
    THEN {CompoundDef("namespace", CId(1), CName(1), inn,
            <<MemberDef("typedef", MId(1), <<"t">>),
              MemberDef("function", MId(2), <<"f">>),
              [MemberDef("enum", MId(3), <<"E">>) EXCEPT
                  !.values = <<EnumValue(EId(1), <<"v">>)>>]>>) :
            inn \in {<<>>, <<Inner("public", 2)>>}}
    ELSE {[CompoundDef("class", CId(2), CName(2), <<>>, <<>>) EXCEPT
              !.bases = <<b>>] : b \in BaseRefs}

\* the number of documents of a family other than "nesting"
RefsOfCorpus(family) ==
    IF family = "bases" THEN 2 ELSE 1

Docs(family, i) ==
    IF family = "nesting" THEN NestingDocs(i)
    ELSE IF family = "members" THEN MemberDocs
    ELSE IF family = "overloads" THEN OverloadDocs
    ELSE IF family = "names" THEN NameDocs
    ELSE IF family = "operators" THEN OperatorDocs
    ELSE IF family = "paragraphs" THEN ParagraphDocs
    ELSE IF family = "xrefs" THEN XrefDocs
    ELSE IF family = "lists" THEN ListDocs
    ELSE IF family = "params" THEN ParamDocs
    ELSE IF family = "kinds" THEN KindDocs
    ELSE BaseDocs(i)

----------------------------------------------------------------------------
(* main and collect_data *)

Init ==
    /\ corpus \in Corpora
    /\ nrefs \in 0..MaxCompounds
    /\ corpus = "nesting" \/ nrefs = RefsOfCorpus(corpus)
    /\ pc = "load"
    /\ pos = 1
    /\ cur = NoDoc
    /\ objs = <<>>
    /\ index = <<>>
    /\ loaded = 0
    /\ built = 0
    /\ wired = {}
    /\ resolved = {}
    /\ failed = ""
    /\ refLog = {}
    /\ lastWire = [ent |-> None, records |-> <<>>]
    /\ rendered = <<>>

\* collect_data, first loop: open and parse the document of refs[pos]
LoadCompound ==
    /\ pc = "load"
    /\ pos <= nrefs
    /\ \E doc \in Docs(corpus, pos) : cur' = doc
    /\ loaded' = loaded + 1
    /\ pc' = "build"
    /\ UNCHANGED <<nrefs, pos, corpus, objs, index, built, wired, resolved,
                   failed, refLog, lastWire, rendered>>

\* collect_data, first loop: the factory lookup and factory(element, result)
BuildCompound ==
    /\ pc = "build"
    /\ IF cur.kind \notin DOMAIN Factory
       THEN /\ pc' = "load"
            /\ UNCHANGED <<objs, index, built, failed>>
       ELSE LET b == BuildCompoundDef([ok |-> TRUE, objs |-> objs,
                                       index |-> index], cur)
            IN  /\ objs' = b.objs
                /\ index' = b.index
                /\ built' = built + 1
                /\ pc' = IF b.ok THEN "load" ELSE "aborted"
                /\ failed' = IF b.ok THEN failed ELSE "build"
    /\ pos' = pos + 1
    /\ cur' = NoDoc
    /\ UNCHANGED <<nrefs, corpus, loaded, wired, resolved, refLog, lastWire,
                   rendered>>

\* the first loop of collect_data is exhausted
StartWire ==
    /\ pc = "load"
    /\ pos > nrefs
    /\ pc' = "wire"
    /\ pos' = 1
    /\ UNCHANGED <<nrefs, cur, corpus, objs, index, loaded, built, wired,
                   resolved, failed, refLog, lastWire, rendered>>

\* collect_data, second loop: entity.update_scopes()
UpdateScopes ==
    /\ pc = "wire"
    /\ pos <= Len(index)
    /\ LET self == index[pos].ent
           u == update_scopes(objs, index, self)
       IN  /\ objs' = u.objs
           /\ pc' = IF u.ok THEN "wire" ELSE "aborted"
           /\ failed' = IF u.ok THEN failed ELSE "wire"
           /\ wired' = IF u.ok THEN wired \cup {self} ELSE wired
           /\ lastWire' = IF u.ok
                          THEN [ent |-> self, records |-> objs[self]._nested]
                          ELSE lastWire
    /\ pos' = pos + 1
    /\ UNCHANGED <<nrefs, cur, corpus, index, loaded, built, resolved, refLog,
                   rendered>>

\* the third loop of collect_data entered while the second still has
\* entities to visit
StartResolveEarly ==
    /\ pc = "wire"
    /\ pc' = "resolve"
    /\ pos' = 1
    /\ UNCHANGED <<nrefs, cur, corpus, objs, index, loaded, built, wired,
                   resolved, failed, refLog, lastWire, rendered>>

\* the second loop of collect_data is exhausted
StartResolve ==
    /\ pc = "wire"
    /\ pos > Len(index)
    /\ pc' = "resolve"
    /\ pos' = 1
    /\ UNCHANGED <<nrefs, cur, corpus, objs, index, loaded, built, wired,
                   resolved, failed, refLog, lastWire, rendered>>

\* the third loop of collect_data going on to the next entity after a
\* resolve_references that raised
ResolveReferencesLenient ==
    /\ pc = "resolve"
    /\ pos <= Len(index)
    /\ LET self == index[pos].ent
           r == resolve_references(objs, index, self)
       IN  /\ objs' = r.objs
           /\ refLog' = refLog \cup r.log
           /\ pc' = "resolve"
           /\ failed' = IF r.ok THEN failed ELSE "resolve"
           /\ resolved' = IF r.ok THEN resolved \cup {self} ELSE resolved
    /\ pos' = pos + 1
    /\ UNCHANGED <<nrefs, cur, corpus, index, loaded, built, wired, lastWire,
                   rendered>>

\* collect_data, third loop: entity.resolve_references()
ResolveReferences ==
    /\ pc = "resolve"
    /\ pos <= Len(index)
    /\ LET self == index[pos].ent
           r == resolve_references(objs, index, self)
       IN  /\ objs' = r.objs
           /\ refLog' = refLog \cup r.log
           /\ pc' = IF r.ok THEN "resolve" ELSE "aborted"
           /\ failed' = IF r.ok THEN failed ELSE "resolve"
           /\ resolved' = IF r.ok THEN resolved \cup {self} ELSE resolved
    /\ pos' = pos + 1
    /\ UNCHANGED <<nrefs, cur, corpus, index, loaded, built, wired, lastWire,
                   rendered>>

\* collect_data returns
StartRender ==
    /\ pc = "resolve"
    /\ pos > Len(index)
    /\ pc' = "render"
    /\ pos' = 1
    /\ UNCHANGED <<nrefs, cur, corpus, objs, index, loaded, built, wired,
                   resolved, failed, refLog, lastWire, rendered>>

RECURSIVE Flatten(_)
Flatten(ss) ==
    IF ss = <<>> THEN <<>> ELSE Head(ss) \o Flatten(Tail(ss))

IndexValues(idx) ==
    [i \in 1..Len(idx) |-> idx[i].ent]

MemberValues(o) ==
    [i \in 1..Len(o.members) |-> o.members[i].ent]

\* OverloadSet.__getattr__('access'): the first function's
AccessOf(heap, h) ==
    IF heap[h].cls = "OverloadSet" THEN heap[heap[h].funcs[1]].access
    ELSE heap[h].access

\* Entity.path: the scopes from the outermost to the entity itself
RECURSIVE PathOf(_, _)
PathOf(heap, h) ==
    IF heap[h].scope = None THEN <<h>>
    ELSE Append(PathOf(heap, heap[h].scope), h)

\* '/'.join(segments)
RECURSIVE JoinSlash(_)
JoinSlash(segments) ==
    IF segments = <<>> THEN <<>>
    ELSE IF Len(segments) = 1 THEN segments[1]
    ELSE segments[1] \o <<"/">> \o JoinSlash(Tail(segments))

DotAdoc == <<".", "a", "d", "o", "c">>

\* Entity.asciidoc_file for the entity whose path is given
FileOfPath(heap, path) ==
    JoinSlash([i \in 1..Len(path) |->
                 _sanitize_path_segment(heap[path[i]].name)]) \o DotAdoc

\* e.asciidoc_file; OverloadSet.__getattr__ hands it to the first function
asciidoc_file(heap, h) ==
    FileOfPath(heap, PathOf(heap, IF heap[h].cls = "OverloadSet"
                                  THEN heap[h].funcs[1] ELSE h))

Docs4(heap, template, ents) ==
    [i \in 1..Len(ents) |->
        [template |-> template, entity |-> ents[i],
         file |-> asciidoc_file(heap, ents[i])]]

ReferenceAdoc ==
    <<"r", "e", "f", "e", "r", "e", "n", "c", "e">> \o DotAdoc

\* isinstance(e.scope, Namespace); an OverloadSet hands scope to its first
\* function
InNamespace(heap, h) ==
    With(heap[IF heap[h].cls = "OverloadSet" THEN heap[h].funcs[1] ELSE h].scope,
         LAMBDA sc : sc # None /\ heap[sc].cls = "Namespace")

\* the render call of the quick reference with its keyword arguments
Quickref(heap, classes, enums, fns, type_alias, constants) ==
    [template |-> "quickref", entity |-> None, file |-> ReferenceAdoc,
     classes |-> classes, enums |-> enums,
     free_functions |-> SelectSeq(fns, LAMBDA e : InNamespace(heap, e)),
     type_aliases |-> SelectSeq(type_alias, LAMBDA e : InNamespace(heap, e)),
     constants |-> constants]

\* the lists main renders, in the order it renders them
RenderList(heap, idx) ==
    LET data == IndexValues(idx)
        cls(h) == heap[h].cls
        namespaces == SelectSeq(data, LAMBDA h : cls(h) = "Namespace")
        classes == SelectSeq(data, LAMBDA h :
                      cls(h) \in ClassClasses /\ heap[h].access = "public")
        compounds == SelectSeq(data, LAMBDA h : cls(h) \in CompoundClasses)
        fns == Flatten([i \in 1..Len(compounds) |->
                  SelectSeq(MemberValues(heap[compounds[i]]), LAMBDA m :
                      cls(m) = "OverloadSet" /\ AccessOf(heap, m) = "public")])
        type_alias == SelectSeq(data, LAMBDA h : cls(h) = "TypeAlias")
        enums == SelectSeq(data, LAMBDA h : cls(h) = "Enum")
        constants == Flatten([i \in 1..Len(namespaces) |->
                  SelectSeq(MemberValues(heap[namespaces[i]]), LAMBDA m :
                      cls(m) \in {"Variable", "Enumerator"})])
    IN  Docs4(heap, "class", classes) \o Docs4(heap, "overload-set", fns)
        \o Docs4(heap, "type-alias", type_alias) \o Docs4(heap, "enum", enums)
        \o Docs4(heap, "variable", constants)
        \o <<Quickref(heap, classes, enums, fns, type_alias, constants)>>

\* main after collect_data: render_entities five times and the quickref
Render ==
    /\ pc = "render"
    /\ rendered' = RenderList(objs, index)
    /\ pc' = "done"
    /\ UNCHANGED <<nrefs, pos, cur, corpus, objs, index, loaded, built, wired,
                   resolved, failed, refLog, lastWire>>

Next ==
    \/ LoadCompound
    \/ BuildCompound
    \/ StartWire
    \/ UpdateScopes
    \/ StartResolve
    \/ ResolveReferences
    \/ StartRender
    \/ Render

Spec == Init /\ [][Next]_vars

----------------------------------------------------------------------------
(* Properties.  refLog holds one entry [refid, allow, text, result] for     *)
(* every call of make_entity_reference that returned; the symbol table is  *)
(* complete before the first of these calls and does not change after it.  *)

Handles ==
    1..Len(objs)

Registered(id) ==
    IndexHas(index, id)

AllRegistered(S) ==
    \A i \in 1..Len(index) : index[i].ent \in S

\* the Phrase holding a reference's text without its line ends, and nothing
\* else
PlainText(text) ==
    MkPhrase("Phrase", None,
             IF text = <<>> THEN <<>>
             ELSE <<StrPart(SelectSeq(text, LAMBDA c : c \notin {"\r", "\n"}))>>)

\* the ref elements directly under an element
RefsOf(e) ==
    {e.children[i] : i \in {j \in 1..Len(e.children) : e.children[j].tag = "ref"}}

\* the ref elements of the types and initializers not yet resolved
PendingRefs ==
    UNION {RefsOf(objs[h]._type) \cup RefsOf(objs[h]._value) : h \in Handles}

\* C1: no call of make_entity_reference with allow_missing_refs false and a
\* target id that is not registered returns a value; such a call raises.
C1_MissingRefFails ==
    \A e \in refLog : ~e.allow => Registered(e.refid)

\* C2: every call of make_entity_reference whose target id is registered
\* returns an EntityRef bound to the entity registered under that id,
\* with allow_missing_refs true or false.
C2_RegisteredRefLinks ==
    \A e \in refLog :
        Registered(e.refid) =>
            /\ e.result.kind = "EntityRef"
            /\ e.result.entity = IndexGet(index, e.refid)
            /\ objs[e.result.entity].id = e.refid

\* C2 witness: references to a registered id were resolved in both modes.
C2_BothModesLinked ==
    \E e1, e2 \in refLog :
        /\ Registered(e1.refid) /\ e1.allow
        /\ Registered(e2.refid) /\ ~e2.allow

\* C3: every call of make_entity_reference with allow_missing_refs true and
\* an unregistered target id returns a plain Phrase (no entity) holding the
\* reference's text with its line ends removed; and for every ref element
\* of a stored type or initializer whose id is unregistered the call
\* returns that Phrase and does not raise.
C3_MissingRefAllowedIsText ==
    /\ \A e \in refLog :
          (e.allow /\ ~Registered(e.refid)) => e.result = PlainText(e.text)
    /\ \A ref \in PendingRefs :
          ~Registered(ref.refid) =>
              /\ make_entity_reference(ref, index, NoId, TRUE).ok
              /\ make_entity_reference(ref, index, NoId, TRUE).val
                     = PlainText(ref.text)

\* C3 witness: a type reference to an unregistered id, its text ending in
\* a line end, was resolved and its owner's resolution completed.
C3_UnlinkedTypeResolved ==
    \E e \in refLog :
        /\ e.allow /\ ~Registered(e.refid)
        /\ \E i \in 1..Len(e.text) : e.text[i] = "\n"
        /\ \E h \in resolved :
              /\ objs[h].cls = "Variable"
              /\ \E k \in 1..Len(objs[h].type.parts) :
                    objs[h].type.parts[k] = e.result

\* C4 as stated: no compound is built before every compound document is
\* loaded, none is wired before all are built, none is resolved before all
\* are wired.
C4_StrictlySequential ==
    /\ built > 0 => loaded = nrefs
    /\ wired # {} => (loaded = nrefs /\ cur = NoDoc)
    /\ resolved # {} => AllRegistered(wired)

\* C4 amended: each compound document is loaded and then built (or skipped)
\* before the next one is loaded; no entity is wired before every document
\* of the index has been loaded and built, and no entity is resolved before
\* every registered entity has been wired.
C4_LoadBuildInterleaved ==
    /\ pc = "load" => (loaded = pos - 1 /\ built <= loaded /\ cur = NoDoc)
    /\ pc = "build" => (loaded = pos /\ built < loaded /\ cur # NoDoc)
    /\ (pc \in {"load", "build"}) => (wired = {} /\ resolved = {})
    /\ (wired # {} \/ pc = "wire") => (loaded = nrefs /\ cur = NoDoc)
    /\ (resolved # {} \/ pc = "resolve") => AllRegistered(wired)

\* C4 witness: a compound has been built while a later compound document
\* is not loaded yet.
C4_BuiltBeforeAllLoaded ==
    built >= 1 /\ loaded < nrefs /\ pc = "load"

\* C5: once a pass has raised the run is over and nothing is rendered;
\* rendering happens only after all documents were loaded and every
\* registered entity was wired and resolved.
C5_NoRenderAfterAbort ==
    /\ failed # "" => (pc = "aborted" /\ rendered = <<>>)
    /\ pc = "aborted" => failed # ""
    /\ (pc \in {"render", "done"}) =>
          (loaded = nrefs /\ AllRegistered(wired) /\ AllRegistered(resolved))
    /\ rendered # <<>> => pc = "done"

\* C5 witness: resolution raised on the second entity it visited, the first
\* being resolved already.
C5_AbortedInResolve ==
    failed = "resolve" /\ pc = "aborted" /\ resolved # {} /\ rendered = <<>>

\* C6: every constructed entity stays the one registered under its id.
C6_RegisteredOnce ==
    \A h \in Handles :
        objs[h].id # NoId => IndexGet(index, objs[h].id) = h

\* the entities that sit in member tables under their names
NamedMembers ==
    {h \in Handles :
        /\ objs[h].cls \notin {"Function", "OverloadSet"}
        /\ objs[h].scope # None
        /\ objs[objs[h].scope].has_members}

\* every key of every member table keeps its member in the next state
MembersKept ==
    \A h \in Handles :
        \A i \in 1..Len(objs[h].members) :
            MembersGet(objs'[h].members, objs[h].members[i].key)
                = objs[h].members[i].ent

\* C7: unless the build aborted, every member is the one found under its
\* name in its scope's table, so no two members of a scope share a name;
\* and no step replaces or removes the member under a key.
C7_OneMemberPerName ==
    /\ [](pc # "aborted" =>
            \A h \in NamedMembers :
                MembersGet(objs[objs[h].scope].members, NameKey(objs[h].name)) = h)
    /\ [][MembersKept]_vars

\* C7 witness: the build aborted with a member whose name was occupied by
\* another member of its scope, which is still there.
C7_CollisionAborted ==
    /\ pc = "aborted"
    /\ \E h \in NamedMembers :
          /\ MembersHas(objs[objs[h].scope].members, NameKey(objs[h].name))
          /\ MembersGet(objs[objs[h].scope].members, NameKey(objs[h].name)) # h

\* C8: an update_scopes that completed had no record with an unregistered
\* id, and (unless a later wiring raised) it left every recorded entity
\* with the compound as scope, the recorded access, and as the member under
\* its name in the compound's table.
C8_WiringComplete ==
    /\ \A i \in 1..Len(lastWire.records) : Registered(lastWire.records[i].refid)
    /\ pc # "aborted" =>
          \A i \in 1..Len(lastWire.records) :
              /\ objs[IndexGet(index, lastWire.records[i].refid)].scope
                     = lastWire.ent
              /\ objs[IndexGet(index, lastWire.records[i].refid)].access
                     = lastWire.records[i].prot
              /\ MembersGet(objs[lastWire.ent].members,
                     NameKey(objs[IndexGet(index, lastWire.records[i].refid)].name))
                     = IndexGet(index, lastWire.records[i].refid)

\* C8 witness: one compound was wired with a nested record, then the
\* wiring of another raised on a record whose id is not registered.
C8_DanglingAborted ==
    /\ failed = "wire"
    /\ Len(lastWire.records) >= 1
    /\ \E h \in Handles :
          \E i \in 1..Len(objs[h]._nested) : ~Registered(objs[h]._nested[i].refid)

\* the member tables that hold the entity e
TablesHolding(e) ==
    {h \in Handles : \E i \in 1..Len(objs[h].members) : objs[h].members[i].ent = e}

\* the table Enum.__init__ is to put the enumerator e in
HomeOf(e) ==
    IF objs[objs[e].enum].is_scoped THEN objs[e].enum
    ELSE objs[objs[e].enum].scope

Enumerators ==
    {h \in Handles : objs[h].cls = "Enumerator"}

\* C9: an enumerator is in no table but its home (the enum when it is
\* scoped, the enclosing scope otherwise); unless the build aborted it is
\* in that table under its name, has the home as scope and is listed by
\* its enum.
C9_EnumeratorHome ==
    \A e \in Enumerators :
        /\ TablesHolding(e) \subseteq {HomeOf(e)}
        /\ pc # "aborted" =>
              /\ TablesHolding(e) = {HomeOf(e)}
              /\ MembersGet(objs[HomeOf(e)].members, NameKey(objs[e].name)) = e
              /\ objs[e].scope = HomeOf(e)
              /\ \E i \in 1..Len(objs[objs[e].enum].objects) :
                    objs[objs[e].enum].objects[i] = e

\* C9 witness: a scope holds an unscoped enum's enumerator x while a scoped
\* enum of the same scope holds its own x.
C9_ScopedAndUnscoped ==
    \E e1, e2 \in Enumerators :
        /\ pc # "aborted"
        /\ objs[e1].name = objs[e2].name
        /\ ~objs[objs[e1].enum].is_scoped
        /\ objs[objs[e2].enum].is_scoped
        /\ objs[objs[e1].enum].scope = objs[objs[e2].enum].scope
        /\ TablesHolding(e1) = {objs[objs[e1].enum].scope}
        /\ TablesHolding(e2) = {objs[e2].enum}

OverloadSets ==
    {h \in Handles : objs[h].cls = "OverloadSet"}

\* the functions created for an overload set; handles grow in the order of
\* creation
FuncsOf(os) ==
    {h \in Handles : objs[h].cls = "Function" /\ objs[h].overload_set = os}

\* the first function created for the set with the brief string of f
ClusterHead(os, f) ==
    CHOOSE g \in FuncsOf(os) :
        /\ BriefString(objs[g]) = BriefString(objs[f])
        /\ \A k \in FuncsOf(os) :
              BriefString(objs[k]) = BriefString(objs[f]) => g <= k

\* f is displayed before g: its cluster started earlier, or they share a
\* cluster and f was created first
DisplayedBefore(os, f, g) ==
    \/ ClusterHead(os, f) < ClusterHead(os, g)
    \/ ClusterHead(os, f) = ClusterHead(os, g) /\ f < g

\* C10: while the briefs of its functions are unresolved, an overload set
\* lists every function created for it, each once, clusters ordered by
\* their first function and functions of a cluster in order of creation.
C10_ClusteredByBrief ==
    \A os \in OverloadSets :
        (\A f \in FuncsOf(os) : objs[f].state = "raw") =>
            /\ {objs[os].funcs[i] : i \in 1..Len(objs[os].funcs)} = FuncsOf(os)
            /\ \A a, b \in 1..Len(objs[os].funcs) :
                  a < b => DisplayedBefore(os, objs[os].funcs[a], objs[os].funcs[b])

\* C10 witness: functions A, B, C created in this order with briefs x, y, x
\* are listed A, C, B.
C10_ACB ==
    \E os \in OverloadSets :
        /\ Len(objs[os].funcs) = 3
        /\ objs[os].funcs[1] < objs[os].funcs[3]
        /\ objs[os].funcs[3] < objs[os].funcs[2]
        /\ BriefString(objs[objs[os].funcs[1]]) = <<"x">>
        /\ BriefString(objs[objs[os].funcs[2]]) = <<"x">>
        /\ BriefString(objs[objs[os].funcs[3]]) = <<"y">>

\* the members of a set of handles in growing order
RECURSIVE Ascending(_)
Ascending(S) ==
    IF S = {} THEN <<>>
    ELSE <<CHOOSE m \in S : \A k \in S : m <= k>>
         \o Ascending(S \ {CHOOSE m \in S : \A k \in S : m <= k})

\* C11: while the briefs of its functions are unresolved, the list of an
\* overload set, re-sorted after every append from the list re-sorted
\* before, is what _resort gives when applied once to its functions in the
\* order of their creation.
C11_ResortIsOneShot ==
    \A os \in OverloadSets :
        (\A f \in FuncsOf(os) : objs[f].state = "raw") =>
            objs[os].funcs = ResortOn(objs, Ascending(FuncsOf(os)))

\* C11 witness: an overload set of four functions, appended one by one,
\* whose list is not in the order of creation.
C11_FourReordered ==
    \E os \in OverloadSets :
        /\ Len(objs[os].funcs) = 4
        /\ objs[os].funcs # Ascending(FuncsOf(os))
        /\ \A f \in FuncsOf(os) : objs[f].state = "raw"

Functions ==
    {h \in Handles : objs[h].cls = "Function"}

\* the positions of f in the list of os
PlacesIn(os, f) ==
    {i \in 1..Len(objs[os].funcs) : objs[os].funcs[i] = f}

\* C12: unless a constructor raised, every Function names an OverloadSet
\* as its overload_set, is once in that set's list and in no other set's;
\* no OverloadSet is empty; the functions of one OverloadSet have the same
\* name, access and kind.
C12_OneSetPerFunction ==
    failed # "build" =>
        /\ \A f \in Functions :
              /\ objs[f].overload_set \in OverloadSets
              /\ {os \in OverloadSets : PlacesIn(os, f) # {}}
                     = {objs[f].overload_set}
              /\ Cardinality(PlacesIn(objs[f].overload_set, f)) = 1
        /\ \A os \in OverloadSets :
              /\ objs[os].funcs # <<>>
              /\ \A i, j \in 1..Len(objs[os].funcs) :
                    /\ objs[objs[os].funcs[i]].name = objs[objs[os].funcs[j]].name
                    /\ objs[objs[os].funcs[i]].access = objs[objs[os].funcs[j]].access
                    /\ FunctionKindOf(objs[objs[os].funcs[i]])
                           = FunctionKindOf(objs[objs[os].funcs[j]])

\* C12 witness: one scope holds two overload sets of the same name, one
\* static and one not.
C12_TwoSetsOneName ==
    \E o1, o2 \in OverloadSets :
        /\ o1 # o2
        /\ objs[objs[o1].funcs[1]].name = objs[objs[o2].funcs[1]].name
        /\ objs[objs[o1].funcs[1]].scope = objs[objs[o2].funcs[1]].scope
        /\ objs[objs[o1].funcs[1]].is_static
        /\ ~objs[objs[o2].funcs[1]].is_static

\* the scopes whose constructor has run to its end
BuiltScopes ==
    {h \in Handles : objs[h].cls \in ScopeClasses /\ failed # "build"}

\* the bracket depth after the first i characters of raw: "<" opens, ">"
\* closes what is open
RECURSIVE DepthAfter(_, _)
DepthAfter(raw, i) ==
    IF i = 0 THEN 0
    ELSE IF raw[i] = "<" THEN DepthAfter(raw, i - 1) + 1
    ELSE IF raw[i] = ">" /\ DepthAfter(raw, i - 1) > 0
    THEN DepthAfter(raw, i - 1) - 1
    ELSE DepthAfter(raw, i - 1)

\* raw[i] is a colon outside angle brackets
TopColon(raw, i) ==
    raw[i] = ":" /\ DepthAfter(raw, i) = 0

\* the place of the colon raw[i] in its run of colons
PlaceInRun(raw, i) ==
    i - CHOOSE j \in 0..(i - 1) :
            /\ j = 0 \/ raw[j] # ":"
            /\ \A k \in (j + 1)..i : raw[k] = ":"

\* the ends of the "::" outside angle brackets, read left to right
PairEnds(raw) ==
    {i \in 1..Len(raw) : TopColon(raw, i) /\ PlaceInRun(raw, i) % 2 = 0}

\* raw ends in a colon outside angle brackets that closes no "::"
Dangling(raw) ==
    /\ raw # <<>>
    /\ TopColon(raw, Len(raw))
    /\ PlaceInRun(raw, Len(raw)) % 2 = 1

\* what follows the last "::" outside angle brackets
AfterLastPair(raw) ==
    IF PairEnds(raw) = {} THEN raw
    ELSE SubSeq(raw, (CHOOSE i \in PairEnds(raw) :
                         \A k \in PairEnds(raw) : k <= i) + 1, Len(raw))

IsLetters(seg) ==
    seg # <<>> /\ \A i \in 1..Len(seg) : seg[i] \notin {":", "<", ">"}

\* C13: a scope built from a name seg::seg has the name seg, and a scope
\* built from a name with no colon outside angle brackets keeps the name
\* unchanged, whatever stands between the brackets.
C13_SelfQualificationAndTemplates ==
    \A h \in BuiltScopes :
        /\ \A n \in 1..Len(objs[h].rawname) :
              (/\ Len(objs[h].rawname) = 2 * n + 2
               /\ IsLetters(SubSeq(objs[h].rawname, 1, n))
               /\ objs[h].rawname
                    = SubSeq(objs[h].rawname, 1, n) \o <<":", ":">>
                      \o SubSeq(objs[h].rawname, 1, n))
              => objs[h].name = SubSeq(objs[h].rawname, 1, n)
        /\ (\A i \in 1..Len(objs[h].rawname) : ~TopColon(objs[h].rawname, i))
              => objs[h].name = objs[h].rawname

\* C13 witness: a class named Foo<Bar::Baz> was built, kept its name and
\* the run went on to render.
C13_FooBuilt ==
    \E h \in BuiltScopes :
        /\ objs[h].rawname = <<"F", "o", "o", "<", "B", "a", "r", ":", ":",
                               "B", "a", "z", ">">>
        /\ objs[h].name = objs[h].rawname
        /\ pc = "done"

\* C14 as stated: a qualification a::b with different segments a and b is
\* not discarded.
C14_ResetOnlyOnMatch ==
    \A h \in BuiltScopes :
        (/\ Len(objs[h].rawname) = 4
         /\ SubSeq(objs[h].rawname, 2, 3) = <<":", ":">>
         /\ IsLetters(<<objs[h].rawname[1], objs[h].rawname[4]>>)
         /\ objs[h].rawname[1] # objs[h].rawname[4])
        => objs[h].name = objs[h].rawname

\* C14 amended: every "::" outside angle brackets resets the name, whether
\* or not the segments around it match: the name of a built scope is what
\* follows the last such "::" of the name it was built from.
C14_EveryPairResets ==
    \A h \in BuiltScopes :
        /\ ~Dangling(objs[h].rawname)
        /\ objs[h].name = AfterLastPair(objs[h].rawname)

\* C14 witness: a class named F::B was built and is named B.
C14_QualifierDropped ==
    \E h \in BuiltScopes :
        /\ objs[h].rawname = <<"F", ":", ":", "B">>
        /\ objs[h].name = <<"B">>

\* C15: a scope constructed from a name that ends in a dangling colon is
\* built, and its name ends in that colon.
C15_DanglingColonKept ==
    \A h \in Handles :
        (objs[h].cls \in ScopeClasses /\ Dangling(objs[h].rawname)) =>
            /\ failed # "build"
            /\ objs[h].name # <<>>
            /\ objs[h].name[Len(objs[h].name)] = ":"

\* the positions of rendered that hold an entity's document
RenderedDocs ==
    {k \in 1..Len(rendered) : rendered[k].entity # None}

\* the entity whose path names the file of the k-th document
FileOwner(k) ==
    IF objs[rendered[k].entity].cls = "OverloadSet"
    THEN objs[rendered[k].entity].funcs[1]
    ELSE rendered[k].entity

\* the names along the path of the k-th document's entity
SegmentsOf(k) ==
    {objs[PathOf(objs, FileOwner(k))[i]].name :
        i \in 1..Len(PathOf(objs, FileOwner(k)))}

Occurrences(s, c) ==
    Cardinality({i \in 1..Len(s) : s[i] = c})

\* C16: for every name on the path of a rendered entity the sanitized
\* segment holds no "/" and is left unchanged by sanitizing it again; the
\* file name of the entity holds only the "/" that join its segments.
C16_SanitizeIdempotentNoSlash ==
    \A k \in RenderedDocs :
        /\ \A n \in SegmentsOf(k) :
              /\ Occurrences(_sanitize_path_segment(n), "/") = 0
              /\ _sanitize_path_segment(_sanitize_path_segment(n))
                     = _sanitize_path_segment(n)
        /\ Occurrences(rendered[k].file, "/")
               = Len(PathOf(objs, FileOwner(k))) - 1

\* C16 witness: the document of a function whose name holds a "/" and
\* other mapped characters was rendered.
C16_SlashRendered ==
    \E k \in RenderedDocs :
        /\ Occurrences(objs[FileOwner(k)].name, "/") >= 1
        /\ Occurrences(objs[FileOwner(k)].name, "<") >= 1
        /\ Len(PathOf(objs, FileOwner(k))) = 2

\* pairs of a name and the segment the ordered replacements give for it
SanitizeExamples ==
    { <<<<"<", "=", ">">>,
        <<"-", "s", "p", "s", "h", "p">>>>,
      <<<<"-", ">">>,
        <<"-", "a", "r", "r", "o", "w">>>>,
      <<<<"o", "p", "e", "r", "a", "t", "o", "r", "~">>,
        <<"o", "p", "e", "r", "a", "t", "o", "r", "-", "b", "n", "o", "t">>>>,
      <<<<"~">>,
        <<"d", "t", "o", "r", "-">>>>,
      <<<<"~", "F">>,
        <<"d", "t", "o", "r", "-", "F">>>>,
      <<<<"o", "p", "e", "r", "a", "t", "o", "r", ">">>,
        <<"o", "p", "e", "r", "a", "t", "o", "r", "-", "g", "t">>>>,
      <<<<"o", "p", "e", "r", "a", "t", "o", "r", "<", "=", ">">>,
        <<"o", "p", "e", "r", "a", "t", "o", "r", "-", "s", "p", "s", "h", "p">>>>,
      <<<<"o", "p", "e", "r", "a", "t", "o", "r", "-", ">">>,
        <<"o", "p", "e", "r", "a", "t", "o", "r", "-", "a", "r", "r", "o", "w">>>>,
      <<<<"o", "p", "e", "r", "a", "t", "o", "r", ">", "=">>,
        <<"o", "p", "e", "r", "a", "t", "o", "r", "-", "g", "t", "-", "e", "q">>>> }

\* C17: the file of a rendered function of namespace A whose name is one
\* of the examples is A/<segment>.adoc with the segment the ordered
\* replacements give: "<=>" is -spshp, "->" is -arrow, "operator~" is
\* operator-bnot, any other "~" is dtor-, "operator>" is operator-gt.
C17_OrderedReplacements ==
    \A k \in RenderedDocs :
        \A e \in SanitizeExamples :
            (corpus = "operators" /\ objs[FileOwner(k)].name = e[1]) =>
                rendered[k].file = <<"A", "/">> \o e[2] \o DotAdoc

\* C17 witness: the document of operator<=> was rendered as
\* A/operator-spshp.adoc.
C17_SpaceshipRendered ==
    \E k \in RenderedDocs :
        /\ objs[FileOwner(k)].name = <<"o", "p", "e", "r", "a", "t", "o", "r", "<", "=", ">">>
        /\ rendered[k].file = <<"A", "/">> \o <<"o", "p", "e", "r", "a", "t", "o", "r", "-", "s", "p", "s", "h", "p">> \o DotAdoc

\* the Paragraph blocks among the resolved briefs, descriptions and
\* overload_specific blocks of the entities
ParagraphsOf(blocks) ==
    {blocks[i].parts : i \in {j \in 1..Len(blocks) : blocks[j].kind = "Paragraph"}}

ResolvedParagraphs ==
    UNION {ParagraphsOf(objs[h].brief) \cup ParagraphsOf(objs[h].description)
           \cup ParagraphsOf(objs[h].overload_specific) : h \in Handles}

IsText(part) ==
    part.kind = "str"

\* the parts that are not text, in their order
NonText(parts) ==
    SelectSeq(parts, LAMBDA x : ~IsText(x))

\* the characters of the text runs that are not whitespace, in their order
RECURSIVE Squeezed(_)
Squeezed(parts) ==
    IF parts = <<>> THEN <<>>
    ELSE (IF IsText(Head(parts))
          THEN SelectSeq(Head(parts).text, LAMBDA c : c \notin Whitespace)
          ELSE <<>>) \o Squeezed(Tail(parts))

\* the resolved entities described by one para of text and inline elements
ResolvedParas ==
    {h \in Handles : /\ corpus = "paragraphs"
                     /\ objs[h].cls = "Variable"
                     /\ objs[h].state = "resolved"}

\* what the accumulator held when the para of h was flushed
Accumulated(h) ==
    phrase_content(objs[h].rawdesc.children[1], index, FALSE).val

\* the parts of the Paragraph made for the para of h, none if none was made
FlushedParts(h) ==
    IF objs[h].description = <<>> THEN <<>>
    ELSE objs[h].description[1].parts

\* C18: every Paragraph made has parts; a first part that is text is not
\* empty and starts with no whitespace, a last part that is text is not
\* empty and ends with none, a text after a Linebreak starts with none; and
\* the flush of a para yields at most one Paragraph, with the inline
\* elements and the non-whitespace characters of the accumulator unchanged.
C18_FlushStrips ==
    /\ \A p \in ResolvedParagraphs :
          /\ p # <<>>
          /\ IsText(p[1]) =>
                (p[1].text # <<>> /\ p[1].text[1] \notin Whitespace)
          /\ IsText(p[Len(p)]) =>
                /\ p[Len(p)].text # <<>>
                /\ p[Len(p)].text[Len(p[Len(p)].text)] \notin Whitespace
          /\ \A n \in 2..Len(p) :
                (p[n - 1].kind = "Linebreak" /\ IsText(p[n]) /\ p[n].text # <<>>)
                    => p[n].text[1] \notin Whitespace
    /\ \A h \in ResolvedParas :
          /\ Len(objs[h].description) <= 1
          /\ NonText(FlushedParts(h)) = NonText(Accumulated(h))
          /\ Squeezed(FlushedParts(h)) = Squeezed(Accumulated(h))

\* C18 witness: an accumulator " a ", Linebreak, " a " was flushed to the
\* Paragraph "a ", Linebreak, "a".
C18_StrippedAroundBreak ==
    \E h \in ResolvedParas :
        /\ Accumulated(h) = <<StrPart(<<" ", "a", " ">>),
                              MkPhrase("Linebreak", None, <<>>),
                              StrPart(<<" ", "a", " ">>)>>
        /\ FlushedParts(h) = <<StrPart(<<"a", " ">>),
                               MkPhrase("Linebreak", None, <<>>),
                               StrPart(<<"a">>)>>

\* the entities: every object but the overload sets
Entities ==
    {h \in Handles : objs[h].cls # "OverloadSet"}

\* the entity whose resolve_references raised
Aborting ==
    IF pc = "aborted" /\ failed = "resolve" THEN {index[pos - 1].ent} ELSE {}

\* the entity holds its unparsed fragments and nothing made from them
IsRaw(e) ==
    /\ e.state = "raw"
    /\ e._brief # Deleted /\ e._description # Deleted
    /\ e._type # Deleted /\ e._value # Deleted
    /\ e._bases # DeletedList /\ e._parameters # DeletedList
    /\ e._template_parameters # DeletedList
    /\ e.brief = <<>> /\ e.description = <<>> /\ e.overload_specific = <<>>
    /\ e.type = NonePart /\ e.value = NonePart
    /\ e.bases = <<>> /\ e.parameters = <<>> /\ e.template_parameters = <<>>

\* the entity holds what was made from its fragments and none of them
IsResolved(e) ==
    /\ e.state = "resolved"
    /\ e._brief = Deleted /\ e._description = Deleted
    /\ e.cls \notin CompoundClasses => (e._type = Deleted /\ e.type # NonePart)
    /\ e.cls \in {"Variable", "Enumerator"} =>
          (e._value = Deleted /\ e.value # NonePart)
    /\ e.cls \in ClassClasses => e._bases = DeletedList
    /\ e.cls = "Function" => e._parameters = DeletedList
    /\ e.cls \in TemplatableClasses => e._template_parameters = DeletedList

ResolvedFields(e) ==
    <<e.state, e.brief, e.description, e.overload_specific, e.type, e.value,
      e.bases, e.parameters, e.template_parameters,
      e._brief, e._description, e._type, e._value,
      e._bases, e._parameters, e._template_parameters>>

\* C19: an entity whose resolve_references has not returned is raw, one
\* whose resolve_references has returned is resolved; nothing is resolved
\* before the third loop of collect_data, which has resolved exactly the
\* entities registered before its position and, when it ends, every
\* registered entity; a step resolves at most one entity, one that was raw,
\* and never touches the fields of a resolved one again.
C19_RawThenResolvedOnce ==
    /\ [](/\ \A h \in Entities \ Aborting :
                IF h \in resolved THEN IsResolved(objs[h]) ELSE IsRaw(objs[h])
          /\ pc \in {"load", "build", "wire"} => resolved = {}
          /\ pc = "resolve" =>
                resolved = {index[i].ent : i \in 1..(pos - 1)}
          /\ pc \in {"render", "done"} => AllRegistered(resolved)
          /\ \A i, j \in 1..Len(index) :
                index[i].ent = index[j].ent => i = j)
    /\ [][/\ resolved \subseteq resolved'
          /\ \A h \in resolved :
                ResolvedFields(objs'[h]) = ResolvedFields(objs[h])
          /\ \A h, k \in resolved' \ resolved :
                h = k /\ pc = "resolve" /\ h = index[pos].ent
                      /\ IsRaw(objs[h])]_vars

\* C19 witness: the third loop has resolved a function and has not reached
\* a variable registered after it.
C19_HalfwayThrough ==
    /\ pc = "resolve"
    /\ \E i, j \in 1..Len(index) :
          /\ i < pos /\ pos <= j
          /\ objs[index[i].ent].cls = "Function"
          /\ IsResolved(objs[index[i].ent])
          /\ objs[index[i].ent].description # <<>>
          /\ objs[index[j].ent].cls = "Variable"
          /\ IsRaw(objs[index[j].ent])

\* the xrefsect elements among the children of e from the i-th on and
\* below them, in document order
RECURSIVE XrefsectsOf(_, _)
XrefsectsOf(e, i) ==
    IF i > Len(e.children) THEN <<>>
    ELSE (IF e.children[i].tag = "xrefsect" THEN <<e.children[i]>>
          ELSE XrefsectsOf(e.children[i], 1)) \o XrefsectsOf(e, i + 1)

\* the element with no xrefsect left at any depth
RECURSIVE WithoutXrefsects(_)
WithoutXrefsects(e) ==
    [e EXCEPT !.children =
        LET kept == SelectSeq(@, LAMBDA c : c.tag # "xrefsect")
        IN  [i \in 1..Len(kept) |-> WithoutXrefsects(kept[i])]]

\* an xreftitle reading overload_specific and an xrefdescription
WellShaped(x) ==
    /\ \E i \in 1..Len(x.children) :
          x.children[i].tag = "xreftitle"
          /\ x.children[i].text = OverloadSpecific
          /\ \A j \in 1..(i - 1) : x.children[j].tag # "xreftitle"
    /\ \E i \in 1..Len(x.children) : x.children[i].tag = "xrefdescription"

\* what a resolved function with the blocks xs holds
ExtractedFrom(e, xs) ==
    IF xs = <<>>
    THEN /\ e.overload_specific = <<>>
         /\ e.description = make_blocks(e.rawdesc, index).val
    ELSE /\ Len(xs) = 1
         /\ WellShaped(xs[1])
         /\ e.overload_specific =
               make_blocks(FindChild(xs[1], "xrefdescription"), index).val
         /\ e.description =
               make_blocks(WithoutXrefsects(e.rawdesc), index).val

\* C20: a resolved function without an xrefsect has an empty
\* overload_specific and its whole description; one with an xrefsect has
\* exactly one, well shaped, whose xrefdescription is its overload_specific
\* and whose description is that of the detaileddescription without the
\* block; a function with an ill-shaped block is never resolved, the third
\* loop of collect_data never goes past it and nothing is rendered; a
\* function with one well-shaped block does not abort the build on that
\* account.
C20_OverloadSpecificExtracted ==
    \A h \in {g \in Handles : objs[g].cls = "Function"} :
        With(XrefsectsOf(objs[h].rawdesc, 1), LAMBDA xs :
            /\ h \in resolved => ExtractedFrom(objs[h], xs)
            /\ ((\E i \in 1..Len(xs) : ~WellShaped(xs[i]))
                   /\ \E i \in 1..Len(index) : index[i].ent = h)
                  => /\ h \notin resolved
                     /\ pc \notin {"render", "done"}
                     /\ pc = "resolve" =>
                           \A i \in 1..(pos - 1) : index[i].ent # h
            /\ (corpus = "xrefs" /\ h \in Aborting)
                  => (Len(xs) > 1 \/ \E i \in 1..Len(xs) : ~WellShaped(xs[i])))

\* C20 witness: a function described by "g" and, in the same para, a
\* well-shaped block holding "s" and followed by "z" was resolved to the
\* description "g" and the overload_specific "s".
C20_BlockMoved ==
    \E h \in resolved :
        /\ objs[h].cls = "Function"
        /\ objs[h].rawdesc =
              Description(<<Para(<<"g">>,
                 <<[Xrefsect(OverloadSpecific, TRUE) EXCEPT !.tail = <<"z">>]>>)>>)
        /\ objs[h].description = <<Paragraph(<<StrPart(<<"g">>)>>)>>
        /\ objs[h].overload_specific = <<Paragraph(<<StrPart(<<"s">>)>>)>>

\* the classes among the entities
Classes ==
    {h \in Handles : objs[h].cls \in ClassClasses}

\* the base specifiers of class h that carry a prot and no refid
NamedBases(h) ==
    IF objs[h]._bases = DeletedList THEN {}
    ELSE {objs[h]._bases[i] : i \in {j \in 1..Len(objs[h]._bases) :
            objs[h]._bases[j].prot # "" /\ objs[h]._bases[j].elem.refid = NoId}}

\* C21: the resolution of a class whose base specifiers all have a prot
\* and are looked up by name does not abort: lookup returns an entity or
\* none for every qualified name.
C21_LookupReturns ==
    \A h \in Classes \cap Aborting :
        \E i \in 1..Len(objs[h]._bases) :
            objs[h]._bases[i] \notin NamedBases(h)

\* the base of a Generalization is one reference bound to a registered
\* entity, or text only
BoundOrPlain(base) ==
    /\ base.kind = "Phrase"
    /\ \/ /\ Len(base.parts) = 1
          /\ base.parts[1].kind = "EntityRef"
          /\ \E i \in 1..Len(index) : index[i].ent = base.parts[1].entity
       \/ \A i \in 1..Len(base.parts) : base.parts[i].kind = "str"

\* C22: the resolution of a class whose base specifiers all have a prot
\* does not abort, and every base of a resolved class is a reference bound
\* to a registered entity or plain text.
C22_BaseBoundOrPlain ==
    \A h \in Classes :
        /\ h \in Aborting =>
              \E i \in 1..Len(objs[h]._bases) : objs[h]._bases[i].prot = ""
        /\ h \in resolved =>
              \A i \in 1..Len(objs[h].bases) :
                  BoundOrPlain(objs[h].bases[i].base)

\* the entities passed to the quick reference, once it is rendered
QuickrefEntities ==
    IF rendered = <<>> THEN {}
    ELSE With(rendered[Len(rendered)], LAMBDA q :
            UNION {{l[i] : i \in 1..Len(l)} :
                     l \in {q.classes, q.enums, q.free_functions,
                            q.type_aliases, q.constants}})

\* C23: every entity passed to the quick reference is public.
C23_QuickrefPublic ==
    \A e \in QuickrefEntities : AccessOf(objs, e) = "public"

\* the List blocks among blocks and inside the items of their lists
RECURSIVE ListBlocksIn(_)
ListBlocksIn(blocks) ==
    UNION {IF blocks[i].kind = "List"
           THEN {blocks[i]}
                \cup UNION {ListBlocksIn(blocks[i].items[j]) :
                              j \in 1..Len(blocks[i].items)}
           ELSE {} : i \in 1..Len(blocks)}

\* C24: every item of every List block of a resolved brief or description
\* holds at least one block.
C24_ListItemsNonEmpty ==
    \A h \in Handles :
        \A l \in ListBlocksIn(objs[h].brief) \cup ListBlocksIn(objs[h].description) :
            \A j \in 1..Len(l.items) : l.items[j] # <<>>

\* the param elements of the entity that are still to be resolved
PendingParams(e) ==
    UNION {{l[i] : i \in 1..Len(l)} :
             l \in {e._parameters, e._template_parameters} \ {DeletedList}}

\* the ids linked from the paragraphs of an inline description
BriefRefs(q) ==
    UNION {{r.refid : r \in RefsOf(q.brief.children[i])} :
             i \in 1..Len(q.brief.children)}

\* the entities linked from the parts of the blocks
LinkedFrom(blocks) ==
    UNION {{blocks[i].parts[j].entity :
              j \in {k \in 1..Len(blocks[i].parts) :
                       blocks[i].parts[k].kind = "EntityRef"}} :
             i \in 1..Len(blocks)}

\* C25: a function whose only parameter or template parameter has an
\* inline description that links a registered id is resolved without an
\* abort, and the description of the resolved parameter links the entity
\* registered under that id.
C25_ParameterDescriptionLinks ==
    /\ corpus = "params" =>
          \A h \in Aborting : \A q \in PendingParams(objs[h]) :
              \A id \in BriefRefs(q) : ~Registered(id)
    /\ \A h \in resolved :
          \A l \in {objs[h].parameters, objs[h].template_parameters} :
              \A i \in 1..Len(l) :
                  \A e \in LinkedFrom(l[i].description) :
                      \E k \in 1..Len(index) : index[k].ent = e

\* C26: the first function in the list of an overload set is the first
\* function created for it, and the list holds the functions created for
\* the set, each once.
C26_PrimaryIsFirstEncountered ==
    \A os \in OverloadSets :
        /\ objs[os].funcs # <<>>
        /\ \A f \in FuncsOf(os) : objs[os].funcs[1] <= f
        /\ {objs[os].funcs[i] : i \in 1..Len(objs[os].funcs)} = FuncsOf(os)
        /\ \A i, j \in 1..Len(objs[os].funcs) :
              objs[os].funcs[i] = objs[os].funcs[j] => i = j

\* C26 witness: functions created with the briefs x, y, y, x are listed
\* first, fourth, second, third: the re-sorts moved the fourth function and
\* left the first in front.
C26_PrimaryKeptWhileReordered ==
    \E os \in OverloadSets :
        /\ Len(objs[os].funcs) = 4
        /\ \A f \in FuncsOf(os) : objs[os].funcs[1] <= f
        /\ objs[os].funcs[2] > objs[os].funcs[3]
        /\ objs[os].funcs[3] < objs[os].funcs[4]
        /\ BriefString(objs[objs[os].funcs[2]]) = BriefString(objs[objs[os].funcs[1]])

\* the entries of the member table of h that hold an overload set
OverloadEntries(h) ==
    {i \in 1..Len(objs[h].members) :
        objs[objs[h].members[i].ent].cls = "OverloadSet"}

\* the (name, access, kind) an overload set shows now: those of its first
\* function
CurrentKey(os) ==
    KeyOf(objs[objs[os].funcs[1]])

\* C27: once the entities are resolved, every overload set of a member
\* table is stored under its current (name, access, kind), and no two
\* overload sets of one table have the same.
C27_KeysCurrent ==
    pc \in {"render", "done"} =>
        \A h \in Handles :
            /\ \A i \in OverloadEntries(h) :
                  objs[h].members[i].key = CurrentKey(objs[h].members[i].ent)
            /\ \A i, j \in OverloadEntries(h) :
                  CurrentKey(objs[h].members[i].ent)
                      = CurrentKey(objs[h].members[j].ent) => i = j

\* C28: once every compound is wired, the scope of every entity of a
\* member table is the compound that holds the table (for an overload set,
\* the scope of its functions).
C28_MemberScopeIsHolder ==
    pc \in {"resolve", "render", "done"} =>
        \A h \in Handles : \A i \in 1..Len(objs[h].members) :
            objs[ProxyOf(objs, objs[h].members[i].ent)].scope = h

\* C29: every text run of every Paragraph of a resolved brief, description
\* or overload_specific has at least one character.
C29_NoEmptyTextRun ==
    \A p \in ResolvedParagraphs :
        \A n \in 1..Len(p) : IsText(p[n]) => p[n].text # <<>>

\* C30: the documents rendered for two distinct entities are written to
\* different files.
C30_DistinctFiles ==
    \A i, j \in RenderedDocs :
        rendered[i].entity # rendered[j].entity =>
            rendered[i].file # rendered[j].file

====
